---- MODULE Spec2Model ----
(***************************************************************************)
(* The incremental build orchestrator of MarkBind's Site class             *)
(* (packages/core/src/Site/index.js): the page generation task scheduler   *)
(* (runPageGenerationTasks, generatePagesSequential,                       *)
(* generatePagesAsyncThrottled), the cancellation horizon                  *)
(* (stopGenerationTimeThreshold), the set of pages to rebuild (toRebuild)  *)
(* and the operations that drive them.                                     *)
(*                                                                         *)
(* One action is one turn of the JavaScript event loop: a call from the    *)
(* outside, or the completion of an awaited page.generate / writeSiteData  *)
(* together with every synchronous continuation that follows it.           *)
(***************************************************************************)
EXTENDS Integers, Sequences, FiniteSets, TLC

\* Number of pages of a task list handed to the scheduler on its own.
NPages == 4
\* Number of page keys of a site.
NSitePages == 2
\* Longest list of opened pages a viewer sends.
MaxOpened == 2
\* Last value of the millisecond clock read by new Date().
MaxTime == 2
\* Pool size of generatePagesAsyncThrottled (imported at index.js:62; scaled down).
MAX_CONCURRENT_PAGE_GENERATION_PROMISES == 2

PageSet == 1..NPages

\* The keys of a site: FsUtil.removeExtension(page.pageConfig.sourcePath).
SiteKeys == 1..NSitePages

\* No error: collectAddressablePages returned, or was not called. An error is
\* the list of the paths its message names, which is not empty.
NoError == <<>>

\* The paths a change notification may hold: the source file of each page, and
\* 0 for the variables file path.resolve(rootPath, USER_VARIABLES_PATH).
FilePaths == 0..NSitePages

\* The invocations of runPageGenerationTasks that may be under way at once,
\* named after their callers.
Slots == {"build", "rebuild", "fill"}

VARIABLES
  now,                          \* the clock new Date() reads
  stopGenerationTimeThreshold,  \* this.stopGenerationTimeThreshold
  backgroundBuildMode,          \* this.backgroundBuildMode
  toRebuild,                    \* this.toRebuild
  runs,                         \* per slot: the state of runPageGenerationTasks
  onePagePath,                  \* this.onePagePath: the landing page, 0 if none
  forceReload,                  \* this.forceReload
  addressablePages,             \* this.addressablePages, as the sequence of their keys
  pages,                        \* this.pages, as the sequence of their keys
  currentPageViewed,            \* this.currentPageViewed, 0 for ''
  currentOpenedPages,           \* this.currentOpenedPages
  phase,                        \* where generate() is: new | full | landing | built | failed
  navRequested,                 \* arguments of the pending rebuildPageBeingViewed call
  navGenerating,                \* pages inside page.generate of _rebuildPageBeingViewed
  siteConfig,                   \* this.siteConfig.pages
  addressablePagesSource,       \* this.addressablePagesSource
  thrown,                       \* what the last collectAddressablePages threw
  generatePromise,              \* the promise of generate(): pending | resolved | rejected
  siteDataWritten,              \* generate() has called writeSiteData
  pendingArgs,                  \* the arguments a delayed operation has collected
  timer,                        \* when its timer is due, 0 when none is set
  calls,                        \* the calls of the delayed operation so far
  executions,                   \* the executions of the operation it wraps so far
  rebuilding,                   \* where _rebuildSourceFiles is: none | lazy | full
  invalidated,                  \* history: the pages a source file of which changed while
                                \* their page.generate was under way, and for which
                                \* page.generate has not been called since
  navPending                    \* history: the pages of navGenerating whose key toRebuild
                                \* held when _rebuildPageBeingViewed reached them

schedVars == <<now, stopGenerationTimeThreshold, backgroundBuildMode, toRebuild, runs>>

siteVars == <<onePagePath, forceReload, addressablePages, pages, currentPageViewed,
              currentOpenedPages, phase, navRequested, navGenerating>>

configVars == <<siteConfig, addressablePagesSource, thrown>>

outcomeVars == <<generatePromise, siteDataWritten>>

delayVars == <<pendingArgs, timer, calls, executions>>

vars == <<schedVars, siteVars, configVars, outcomeVars, delayVars, rebuilding,
          invalidated, navPending>>

-----------------------------------------------------------------------------
\* Helpers

Range(s) == {s[i] : i \in 1..Len(s)}

Min(a, b) == IF a < b THEN a ELSE b

\* The sequence lo, lo+1, ..., hi.
Interval(lo, hi) == [i \in 1..(hi - lo + 1) |-> lo + i - 1]

-----------------------------------------------------------------------------
\* The state of one runPageGenerationTasks invocation.

IdleRun ==
  [status |-> "idle",            \* idle | running | returned | threw | over
   tasks |-> <<>>,               \* pageGenerationTasks
   idx |-> 0,                    \* position of sequentialAsyncForEach in tasks
   startTime |-> 0,              \* startTime of runPageGenerationTasks
   isCompleted |-> TRUE,         \* isCompleted of runPageGenerationTasks
   seqStart |-> 0,               \* startTime of generatePagesSequential
   seqPos |-> 0,                 \* position of sequentialAsyncForEach in pages
   seqPhase |-> "none",          \* none | gen (page.generate) | write (writeSiteData)
   seqIsCompleted |-> TRUE,      \* isCompleted of generatePagesSequential
   context |-> [startTime |-> 0, numPagesGenerated |-> 0,
                numPagesToGenerate |-> 0, isCompleted |-> TRUE],
   pageGenerationQueue |-> <<>>, \* callbacks not yet executed
   generating |-> {},            \* pages inside page.generate
   writing |-> {},               \* pages inside writeSiteData(false)
   settled |-> "none",           \* none | pending | true | false | rejected
   \* history of the invocation
   order |-> <<>>,               \* pages in the order their generate was called
   done |-> {},                  \* pages whose generate call succeeded
   failed |-> {},                \* pages whose generate call failed
   results |-> <<>>,             \* the value each task resolved with
   stopIdx |-> 0,                \* task under way when the horizon passed its start
   atStop |-> {},                \* its pages not yet dispatched at that moment
   pendAtStop |-> {}]            \* those of them in toRebuild at that moment

\* The pages of the task under way.
CurrentPages(rec) ==
  IF rec.idx \in 1..Len(rec.tasks) THEN rec.tasks[rec.idx].pages ELSE <<>>

\* The start time of the task under way.
TaskStart(rec) ==
  IF rec.tasks[rec.idx].mode = "sequential" THEN rec.seqStart
  ELSE rec.context.startTime

\* An invocation whose caller has gone on ("over") is forgotten once none of its
\* callbacks is left in the event loop.
Collect(rec) ==
  IF rec.status = "over" /\ rec.generating = {} /\ rec.writing = {}
  THEN IdleRun ELSE rec

\* The caller of an invocation that has resolved or rejected goes on.
CallerGoesOn(rec) == Collect([rec EXCEPT !.status = "over"])

-----------------------------------------------------------------------------
\* Pure parts of the scheduler.

\* utils.sequentialAsyncForEach(array, callback): the callback is called for the
\* element after position i once the promise of the call for element i has
\* resolved; a rejection ends the iteration.
NextElement(i) == i + 1

\* The stop guard that does not look at backgroundBuildMode.
StopGuard_AnyMode(startTime) == startTime < stopGenerationTimeThreshold

\* The stop guard that also fires when the two times are equal.
StopGuard_AtOrBefore(startTime) ==
  backgroundBuildMode /\ startTime <= stopGenerationTimeThreshold

\* The stop guard with its comparison reversed.
StopGuard_Reversed(startTime) ==
  backgroundBuildMode /\ startTime > stopGenerationTimeThreshold

\* The stop guards: index.js 1012, 1040, 1082, 1120.
StopGuard(startTime) ==
  backgroundBuildMode /\ startTime < stopGenerationTimeThreshold

\* The initial batch without the splice: every callback is executed at once.
InitialBatchSize_Unthrottled(n) == n

\* The initial batch of one callback only.
InitialBatchSize_One(n) == Min(1, n)

\* pageGenerationQueue.splice(0, MAX_CONCURRENT_PAGE_GENERATION_PROMISES).
InitialBatchSize(n) == Min(MAX_CONCURRENT_PAGE_GENERATION_PROMISES, n)

\* resolve(true) as soon as the queue is empty.
AllPagesGenerated_QueueEmpty(context) == TRUE

\* context.numPagesGenerated === context.numPagesToGenerate.
AllPagesGenerated(context) ==
  context.numPagesGenerated = context.numPagesToGenerate

\* The guarded branch without isCompleted = false.
TaskSkipped_ResultKept(rec) ==
  [rec EXCEPT !.idx = NextElement(@)]

\* The guarded branch of runPageGenerationTasks: the task is not run.
TaskSkipped(rec) ==
  [rec EXCEPT !.isCompleted = FALSE, !.idx = NextElement(@)]

RECURSIVE TaskQueueStep(_)
RECURSIVE SequentialStep(_)
RECURSIVE CallAll(_, _)

\* isCompleted = await generatePagesX(...), then the next task.
TaskResolved(rec, v) ==
  TaskQueueStep([rec EXCEPT !.isCompleted = v, !.idx = NextElement(@),
                            !.results = Append(@, v)])

\* The loop takes the pages from the last to the first.
SequentialStep_FromTheEnd(rec) ==
  LET ps == CurrentPages(rec) IN
  IF rec.seqPos > Len(ps)
  THEN TaskResolved([rec EXCEPT !.seqPhase = "none"], rec.seqIsCompleted)
  ELSE [rec EXCEPT !.seqPhase = "gen",
                   !.order = Append(@, ps[Len(ps) - rec.seqPos + 1])]

\* One iteration of the loop of generatePagesSequential, up to its await.
\* A return from the guarded branch goes on to the next page, where the guard
\* fires again.
SequentialStep(rec) ==
  LET ps == CurrentPages(rec) IN
  IF rec.seqPos > Len(ps)
  THEN TaskResolved([rec EXCEPT !.seqPhase = "none"], rec.seqIsCompleted)
  ELSE IF StopGuard(rec.seqStart)
  THEN SequentialStep([rec EXCEPT !.seqIsCompleted = FALSE, !.seqPos = NextElement(@),
                                  !.seqPhase = "none"])
  ELSE [rec EXCEPT !.seqPhase = "gen", !.order = Append(@, ps[rec.seqPos])]

\* The failed page is skipped and the loop goes on.
SequentialFailed_Skipped(rec, p) ==
  SequentialStep([rec EXCEPT !.failed = @ \cup {p}, !.seqPos = NextElement(@)])

\* The catch of generatePagesSequential: the error thrown leaves the loops of
\* generatePagesSequential and of runPageGenerationTasks.
SequentialFailed(rec, p) ==
  [rec EXCEPT !.failed = @ \cup {p}, !.seqPhase = "none", !.status = "threw"]

\* resolve(v) of the promise of generatePagesAsyncThrottled.
Resolve(rec, v) ==
  IF rec.settled = "pending"
  THEN TaskResolved([rec EXCEPT !.settled = IF v THEN "true" ELSE "false"], v)
  ELSE rec

\* reject(...): runPageGenerationTasks rejects with it.
Reject(rec) ==
  IF rec.settled = "pending"
  THEN [rec EXCEPT !.settled = "rejected", !.status = "threw"]
  ELSE rec

\* The guarded branch without resolve(false).
AsyncStopped_Unresolved(rec) ==
  [rec EXCEPT !.context.isCompleted = FALSE]

\* The guarded branch of a queued callback and of generateProgressBarStatus.
AsyncStopped(rec) ==
  IF rec.context.isCompleted
  THEN Resolve([rec EXCEPT !.context.isCompleted = FALSE], FALSE)
  ELSE rec

\* A callback of pageGenerationQueue, up to its await of page.generate.
GeneratePageCallback(rec, p) ==
  IF StopGuard(rec.context.startTime)
  THEN AsyncStopped(rec)
  ELSE [rec EXCEPT !.generating = @ \cup {p}, !.order = Append(@, p)]

CallAll(rec, ps) ==
  IF ps = <<>> THEN rec
  ELSE CallAll(GeneratePageCallback(rec, Head(ps)), Tail(ps))

\* generatePagesAsyncThrottled up to its return.
AsyncStart(rec) ==
  LET ps == CurrentPages(rec)
      k == InitialBatchSize(Len(ps))
      r1 == [rec EXCEPT
               !.context = [startTime |-> now, numPagesGenerated |-> 0,
                            numPagesToGenerate |-> Len(ps), isCompleted |-> TRUE],
               !.pageGenerationQueue = SubSeq(ps, k + 1, Len(ps)),
               !.settled = "pending"]
  IN CallAll(r1, SubSeq(ps, 1, k))

\* The callback at the head of the queue is taken.
PopIndex_Shift(q) == 1

\* pageGenerationQueue.pop(): the position of the callback taken.
PopIndex(q) == Len(q)

\* generateProgressBarStatus.
GenerateProgressBarStatus(rec) ==
  IF StopGuard(rec.context.startTime)
  THEN AsyncStopped(rec)
  ELSE LET r1 == [rec EXCEPT !.context.numPagesGenerated = @ + 1]
           q == r1.pageGenerationQueue
           i == PopIndex(q)
       IN IF Len(q) > 0
          THEN GeneratePageCallback(
                 [r1 EXCEPT !.pageGenerationQueue =
                    SubSeq(q, 1, i - 1) \o SubSeq(q, i + 1, Len(q))],
                 q[i])
          ELSE IF AllPagesGenerated(r1.context)
          THEN Resolve(r1, TRUE)
          ELSE r1

\* One iteration of the loop of runPageGenerationTasks, up to its await.
TaskQueueStep(rec) ==
  IF rec.idx > Len(rec.tasks)
  THEN [rec EXCEPT !.status = "returned"]
  ELSE IF StopGuard(rec.startTime)
  THEN TaskQueueStep(TaskSkipped(rec))
  ELSE IF rec.tasks[rec.idx].mode = "sequential"
  THEN SequentialStep([rec EXCEPT !.seqStart = now, !.seqPos = 1,
                                  !.seqIsCompleted = TRUE])
  ELSE AsyncStart(rec)

\* runPageGenerationTasks(tasks) up to its first await.
RunPageGenerationTasks(tasks) ==
  TaskQueueStep([IdleRun EXCEPT !.status = "running", !.tasks = tasks,
                                !.idx = 1, !.startTime = now])

\* The page of a sequential task inside page.generate, if any.
SequentialGenerating(rec) ==
  IF rec.status = "running" /\ rec.seqPhase = "gen"
  THEN {CurrentPages(rec)[rec.seqPos]} ELSE {}

\* The pages inside page.generate of an invocation.
Generating(rec) == rec.generating \cup SequentialGenerating(rec)

\* The pages whose page.generate is called in the step.
StartedGenerating ==
  UNION {Generating(runs'[r]) \ Generating(runs[r]) : r \in Slots}
    \cup (navGenerating' \ navGenerating)

\* The pages inside page.generate, whoever called it.
PagesInGenerate ==
  UNION {Generating(runs[r]) : r \in Slots} \cup navGenerating

\* The history after a step in which source files of the pages changed have
\* changed: a page.generate called in the step reads the changed files.
Tracked(changed) ==
  (invalidated \cup (changed \cap PagesInGenerate)) \ StartedGenerating

\* The history after a step: the pages _rebuildPageBeingViewed reaches in the
\* step with their key in toRebuild, until their page.generate is over.
NavPending ==
  (navPending \cup ((navGenerating' \ navGenerating) \cap toRebuild)) \cap navGenerating'

-----------------------------------------------------------------------------
\* Actions of the scheduler.

\* page.generate of the page of a sequential task completes.
SequentialGenerateDone(r) ==
  LET rec == runs[r]
      p == CurrentPages(rec)[rec.seqPos]
  IN /\ rec.status = "running"
     /\ rec.seqPhase = "gen"
     /\ \E ok \in BOOLEAN :
          IF ok
          THEN /\ toRebuild' = toRebuild \ {p}
               /\ LET r1 == [rec EXCEPT !.done = @ \cup {p}] IN
                  runs' = [runs EXCEPT ![r] =
                    IF backgroundBuildMode
                    THEN [r1 EXCEPT !.seqPhase = "write"]
                    ELSE SequentialStep([r1 EXCEPT !.seqPos = NextElement(@)])]
          ELSE /\ toRebuild' = toRebuild
               /\ runs' = [runs EXCEPT ![r] = SequentialFailed(rec, p)]
     /\ UNCHANGED <<configVars, outcomeVars, delayVars, rebuilding, now, stopGenerationTimeThreshold, backgroundBuildMode, siteVars>>
     /\ invalidated' = Tracked({})
     /\ navPending' = NavPending

\* writeSiteData(false) of a sequential task completes.
SequentialWriteDone(r) ==
  LET rec == runs[r] IN
  /\ rec.status = "running"
  /\ rec.seqPhase = "write"
  /\ runs' = [runs EXCEPT ![r] = SequentialStep([rec EXCEPT !.seqPos = NextElement(@)])]
  /\ UNCHANGED <<configVars, outcomeVars, delayVars, rebuilding, now, stopGenerationTimeThreshold, backgroundBuildMode, toRebuild,
                 siteVars>>
  /\ invalidated' = Tracked({})
  /\ navPending' = NavPending

\* page.generate of a page of a concurrent task completes.
AsyncGenerateDone(r, p) ==
  LET rec == runs[r]
      r0 == [rec EXCEPT !.generating = @ \ {p}]
  IN /\ p \in rec.generating
     /\ \E ok \in BOOLEAN :
          IF ok
          THEN /\ toRebuild' = toRebuild \ {p}
               /\ LET r1 == [r0 EXCEPT !.done = @ \cup {p}] IN
                  runs' = [runs EXCEPT ![r] =
                    IF backgroundBuildMode
                    THEN [r1 EXCEPT !.writing = @ \cup {p}]
                    ELSE Collect(GenerateProgressBarStatus(r1))]
          ELSE /\ toRebuild' = toRebuild
               /\ runs' = [runs EXCEPT ![r] =
                    Collect(Reject([r0 EXCEPT !.failed = @ \cup {p}]))]
     /\ UNCHANGED <<configVars, outcomeVars, delayVars, rebuilding, now, stopGenerationTimeThreshold, backgroundBuildMode, siteVars>>
     /\ invalidated' = Tracked({})
     /\ navPending' = NavPending

\* writeSiteData(false) of a page of a concurrent task completes.
AsyncWriteDone(r, p) ==
  LET rec == runs[r] IN
  /\ p \in rec.writing
  /\ runs' = [runs EXCEPT ![r] =
       Collect(GenerateProgressBarStatus([rec EXCEPT !.writing = @ \ {p}]))]
  /\ UNCHANGED <<configVars, outcomeVars, delayVars, rebuilding, now, stopGenerationTimeThreshold, backgroundBuildMode, toRebuild,
                 siteVars>>
  /\ invalidated' = Tracked({})
  /\ navPending' = NavPending

\* Time passes.
Tick ==
  /\ now < MaxTime
  /\ now' = now + 1
  /\ UNCHANGED <<configVars, outcomeVars, delayVars, rebuilding, stopGenerationTimeThreshold, backgroundBuildMode, toRebuild, runs,
                 siteVars>>
  /\ invalidated' = Tracked({})
  /\ navPending' = NavPending

\* The history kept when, in background-build mode, the horizon first passes the
\* start of the task under way.
NoteStop(rec) ==
  IF backgroundBuildMode /\ rec.status = "running" /\ rec.stopIdx = 0
     /\ TaskStart(rec) < now
  THEN LET left == Range(CurrentPages(rec)) \ Range(rec.order) IN
       [rec EXCEPT !.stopIdx = rec.idx, !.atStop = left,
                   !.pendAtStop = left \cap toRebuild]
  ELSE rec

\* stopOngoingBuilds().
StopOngoingBuilds ==
  /\ stopGenerationTimeThreshold' = now
  /\ runs' = [r \in Slots |-> NoteStop(runs[r])]
  /\ UNCHANGED <<configVars, outcomeVars, delayVars, rebuilding, now, backgroundBuildMode, toRebuild, siteVars>>
  /\ invalidated' = Tracked({})
  /\ navPending' = NavPending

\* The completions of the sequential tasks.
SequentialScheduler ==
  \/ \E r \in Slots : SequentialGenerateDone(r)
  \/ \E r \in Slots : SequentialWriteDone(r)

\* The completions of the concurrent tasks.
AsyncScheduler ==
  \/ \E r \in Slots, p \in PageSet : AsyncGenerateDone(r, p)
  \/ \E r \in Slots, p \in PageSet : AsyncWriteDone(r, p)

Scheduler == SequentialScheduler \/ AsyncScheduler

-----------------------------------------------------------------------------
\* The scheduler on its own: one invocation of runPageGenerationTasks over task
\* lists of the shapes its callers push (generatePages and
\* generatePagesMarkedToRebuild: one concurrent task, possibly empty;
\* regenerateAffectedPages: a non-empty sequential task, then a non-empty
\* concurrent task, either of which may be missing).

TaskLists ==
  {<<[mode |-> "async", pages |-> Interval(1, a)]>> : a \in 0..NPages}
  \cup {<<[mode |-> "sequential", pages |-> Interval(1, s)]>> : s \in 1..NPages}
  \cup {<<[mode |-> "sequential", pages |-> Interval(1, s)],
          [mode |-> "async", pages |-> Interval(s + 1, NPages)]>> :
        s \in 1..(NPages - 1)}

TaskInit ==
  /\ now = 0
  /\ stopGenerationTimeThreshold = 0
  /\ backgroundBuildMode \in BOOLEAN
  /\ toRebuild \in {{}, PageSet}
  /\ runs = [r \in Slots |-> IdleRun]
  /\ onePagePath = 0
  /\ forceReload = FALSE
  /\ addressablePages = Interval(1, NPages)
  /\ pages = Interval(1, NPages)
  /\ currentPageViewed = 0
  /\ currentOpenedPages = <<>>
  /\ phase = "built"
  /\ navRequested = {}
  /\ navGenerating = {}
  /\ siteConfig = <<>>
  /\ addressablePagesSource = addressablePages
  /\ thrown = NoError
  /\ generatePromise = "resolved"
  /\ siteDataWritten = TRUE
  /\ pendingArgs = <<>>
  /\ timer = 0
  /\ calls = <<>>
  /\ executions = <<>>
  /\ rebuilding = "none"
  /\ invalidated = {}
  /\ navPending = {}

TaskStartRun ==
  /\ runs["rebuild"].status = "idle"
  /\ \E tasks \in TaskLists :
       runs' = [runs EXCEPT !["rebuild"] = RunPageGenerationTasks(tasks)]
  /\ UNCHANGED <<configVars, outcomeVars, delayVars, rebuilding, now, stopGenerationTimeThreshold, backgroundBuildMode, toRebuild,
                 siteVars>>
  /\ invalidated' = Tracked({})
  /\ navPending' = NavPending

TaskNext ==
  \/ TaskStartRun
  \/ Scheduler
  \/ Tick
  \/ StopOngoingBuilds

SpecTask == TaskInit /\ [][TaskNext]_vars

\* Every started page.generate and writeSiteData eventually completes.
SpecTaskFair == SpecTask /\ WF_vars(Scheduler)

-----------------------------------------------------------------------------
\* The site: generate(), the viewer's notifications and the rebuilds.

RECURSIVE Uniq(_)
\* _.uniq: the first occurrence of every element, in order.
Uniq(s) ==
  IF s = <<>> THEN <<>>
  ELSE LET front == Uniq(SubSeq(s, 1, Len(s) - 1))
           last == s[Len(s)]
       IN IF last \in Range(front) THEN front ELSE Append(front, last)

\* array.findIndex(x => x === v), counted from 1; 0 for -1.
FindIndex(s, v) ==
  IF v \in Range(s) THEN CHOOSE i \in 1..Len(s) : s[i] = v /\ \A j \in 1..(i - 1) : s[j] # v
  ELSE 0

\* page.isDependency(filePath): a page depends on its own source file.
IsDependency(p, f) == f = p

\* The test without the --force-reload flag.
ShouldRebuildAllPages_VariablesOnly(filePaths) == 0 \in filePaths

\* collectUserDefinedVariablesMapIfNeeded(filePaths) || this.forceReload.
ShouldRebuildAllPages(filePaths) == 0 \in filePaths \/ forceReload

\* The condition of the filter of regenerateAffectedPages (line 1190).
IsAffected(p, filePaths) ==
  ShouldRebuildAllPages(filePaths) \/ \E f \in filePaths : IsDependency(p, f)

\* No page counts as opened.
IsRecentlyViewed_Never(p) == FALSE

\* isRecentlyViewed of regenerateAffectedPages (lines 1193-1194).
IsRecentlyViewed(p) == FindIndex(currentOpenedPages, p) # 0

\* The opened pages pushed in the order the filter visits them.
OpenedPagesToRegenerate_CollectionOrder(filePaths) ==
  SelectSeq(pages, LAMBDA p : IsAffected(p, filePaths) /\ IsRecentlyViewed(p))

\* openedPagesToRegenerate: the array assigned at openIdx, then without its holes.
OpenedPagesToRegenerate(filePaths) ==
  LET sparse == [i \in 1..Len(currentOpenedPages) |->
                   IF \E p \in Range(pages) :
                        IsAffected(p, filePaths) /\ FindIndex(currentOpenedPages, p) = i
                   THEN currentOpenedPages[i] ELSE 0]
  IN SelectSeq(sparse, LAMBDA x : x # 0)

\* asyncPagesToRegenerate: the pages the filter keeps.
AsyncPagesToRegenerate(filePaths) ==
  SelectSeq(pages, LAMBDA p : IsAffected(p, filePaths) /\ onePagePath = 0)

\* The pages for which the condition of the filter holds.
AffectedPages(filePaths) == {p \in Range(pages) : IsAffected(p, filePaths)}

\* The keys are added whether or not there is a landing page.
FilterMarked_AnyMode(filePaths) ==
  {p \in Range(pages) : IsAffected(p, filePaths) /\ ~IsRecentlyViewed(p)}

\* The keys the filter adds to toRebuild.
FilterMarked(filePaths) ==
  {p \in Range(pages) :
     IsAffected(p, filePaths) /\ onePagePath # 0 /\ ~IsRecentlyViewed(p)}

\* The concurrent task is pushed first.
PageGenerationTasks_AsyncFirst(opened, async) ==
  (IF Len(async) > 0 THEN <<[mode |-> "async", pages |-> async]>> ELSE <<>>)
  \o (IF Len(opened) > 0 THEN <<[mode |-> "sequential", pages |-> opened]>> ELSE <<>>)

\* pageGenerationTasks of regenerateAffectedPages.
PageGenerationTasks(opened, async) ==
  (IF Len(opened) > 0 THEN <<[mode |-> "sequential", pages |-> opened]>> ELSE <<>>)
  \o (IF Len(async) > 0 THEN <<[mode |-> "async", pages |-> async]>> ELSE <<>>)

\* Every page is added, the page viewed included.
LazyBuildAllPagesNotViewed_ViewedToo == toRebuild \cup Range(pages)

\* lazyBuildAllPagesNotViewed: toRebuild afterwards.
LazyBuildAllPagesNotViewed ==
  toRebuild \cup {p \in Range(pages) : p # currentPageViewed}

\* The server takes calls once generate() has returned.
Serving == phase \in {"built", "failed"}

\* generateLandingPage up to its await: the next phase of generate() with
\* the pages ps and the landing page path. It throws when no page is the
\* landing page.
GenerateLandingPage_NotLookedUp(ps, path) == "landing"

GenerateLandingPage(ps, path) == IF path \in Range(ps) THEN "landing" ELSE "failed"

\* generate() once buildSourceFiles or lazyBuildSourceFiles has returned, which
\* each does whether or not its try block threw: the remaining steps up to
\* writeSiteData, and the promise of generate().
GenerateGoesOn ==
  /\ siteDataWritten' = TRUE
  /\ generatePromise' = "resolved"

\* generate() up to its first await of a page: buildSourceFiles and generatePages,
\* or lazyBuildSourceFiles and generateLandingPage, which throws when no page is
\* the landing page.
Generate ==
  /\ phase = "new"
  /\ pages' = addressablePages
  /\ IF onePagePath = 0
     THEN /\ runs' = [runs EXCEPT !["build"] =
                RunPageGenerationTasks(<<[mode |-> "async", pages |-> pages']>>)]
          /\ phase' = "full"
          /\ UNCHANGED outcomeVars
     ELSE /\ runs' = runs
          /\ phase' = GenerateLandingPage(pages', onePagePath)
          /\ IF phase' = "failed" THEN GenerateGoesOn ELSE UNCHANGED outcomeVars
  /\ UNCHANGED <<configVars, delayVars, rebuilding, now, stopGenerationTimeThreshold, backgroundBuildMode, toRebuild,
                 onePagePath, forceReload, addressablePages, currentPageViewed,
                 currentOpenedPages, navRequested, navGenerating>>
  /\ invalidated' = Tracked({})
  /\ navPending' = NavPending

\* generatePages has resolved or rejected: buildSourceFiles and generate go on.
GenerateAfterPages ==
  /\ phase = "full"
  /\ runs["build"].status \in {"returned", "threw"}
  /\ phase' = IF runs["build"].status = "returned" THEN "built" ELSE "failed"
  /\ runs' = [runs EXCEPT !["build"] = CallerGoesOn(@)]
  /\ GenerateGoesOn
  /\ UNCHANGED <<configVars, delayVars, rebuilding, now, stopGenerationTimeThreshold, backgroundBuildMode, toRebuild,
                 onePagePath, forceReload, addressablePages, pages,
                 currentPageViewed, currentOpenedPages, navRequested, navGenerating>>
  /\ invalidated' = Tracked({})
  /\ navPending' = NavPending

\* landingPage.generate completes: lazyBuildSourceFiles goes on to
\* lazyBuildAllPagesNotViewed, or to its catch, and generate goes on.
LandingGenerateDone ==
  /\ phase = "landing"
  /\ \E ok \in BOOLEAN :
       IF ok
       THEN toRebuild' = LazyBuildAllPagesNotViewed /\ phase' = "built"
       ELSE toRebuild' = toRebuild /\ phase' = "failed"
  /\ GenerateGoesOn
  /\ UNCHANGED <<configVars, delayVars, rebuilding, now, stopGenerationTimeThreshold, backgroundBuildMode, runs,
                 onePagePath, forceReload, addressablePages, pages,
                 currentPageViewed, currentOpenedPages, navRequested, navGenerating>>
  /\ invalidated' = Tracked({})
  /\ navPending' = NavPending

\* The rebuild is requested whatever toRebuild holds.
NeedsRebuild_Always(k) == TRUE

\* this.toRebuild.has(this.currentPageViewed): what changeCurrentPage returns.
NeedsRebuild(k) == k \in toRebuild

\* changeCurrentPage(normalizedUrl); rebuildPageBeingViewed is the delayed
\* _rebuildPageBeingViewed, which runs later with the arguments of its calls.
ChangeCurrentPage(k) ==
  /\ Serving
  /\ currentPageViewed' = k
  /\ navRequested' = IF NeedsRebuild(k) THEN navRequested \cup {k} ELSE navRequested
  /\ UNCHANGED <<configVars, outcomeVars, delayVars, rebuilding, schedVars, onePagePath, forceReload, addressablePages, pages,
                 currentOpenedPages, phase, navGenerating>>
  /\ invalidated' = Tracked({})
  /\ navPending' = NavPending

\* changeCurrentOpenedPages(normalizedUrls).
ChangeCurrentOpenedPages(urls) ==
  /\ Serving
  /\ currentOpenedPages' = IF onePagePath = 0 THEN currentOpenedPages ELSE Uniq(urls)
  /\ UNCHANGED <<configVars, outcomeVars, delayVars, rebuilding, schedVars, onePagePath, forceReload, addressablePages, pages,
                 currentPageViewed, phase, navRequested, navGenerating>>
  /\ invalidated' = Tracked({})
  /\ navPending' = NavPending

\* The keys of uniqueUrls that pages.find finds.
PagesToRebuild(urls) == urls \cap Range(pages)

\* Most repeated arguments among the calls of rebuildPageBeingViewed.
MaxRepeats == 1

\* The arrays of arguments _rebuildPageBeingViewed may be called with: the keys
\* requested, in any order, some of them more than once.
RequestedLists ==
  {urls \in UNION {[1..n -> navRequested] :
                     n \in Cardinality(navRequested)..(Cardinality(navRequested) + MaxRepeats)} :
     Range(urls) = navRequested}

\* The array is taken as it is given.
UniqueUrls_AsGiven(normalizedUrlArray) == normalizedUrlArray

\* _.uniq(normalizedUrlArray).
UniqueUrls(normalizedUrlArray) == Uniq(normalizedUrlArray)

\* regeneratePagesBeingViewed: the pages whose generate is called, one call
\* after the other without an await between them; a url that pages.find does
\* not find is passed over.
RegeneratePagesBeingViewed(normalizedUrls) ==
  SelectSeq(UniqueUrls(normalizedUrls), LAMBDA url : url \in PagesToRebuild({url}))

\* _rebuildPageBeingViewed(normalizedUrls) up to its awaits: every async callback
\* of the map deletes its key and runs to its await of generate. (Bound: no page
\* is generated twice at once by this operation.)
RebuildPageBeingViewedWith(normalizedUrls) ==
  /\ navRequested # {}
  /\ navRequested \cap navGenerating = {}
  /\ toRebuild' = toRebuild \ Range(RegeneratePagesBeingViewed(normalizedUrls))
  /\ navGenerating' = navGenerating \cup Range(RegeneratePagesBeingViewed(normalizedUrls))
  /\ navRequested' = {}
  /\ UNCHANGED <<configVars, outcomeVars, delayVars, rebuilding, now, stopGenerationTimeThreshold, backgroundBuildMode, runs,
                 onePagePath, forceReload, addressablePages, pages,
                 currentPageViewed, currentOpenedPages, phase>>
  /\ invalidated' = Tracked({})
  /\ navPending' = NavPending

\* The delayed _rebuildPageBeingViewed runs with the arguments of its calls.
RebuildPageBeingViewed ==
  \E normalizedUrls \in RequestedLists : RebuildPageBeingViewedWith(normalizedUrls)

\* pageToRebuild.generate of _rebuildPageBeingViewed completes: with success,
\* and writeSiteData follows, or with an error that the catch hands to
\* rejectHandler. Neither touches the fields of the site.
NavGenerateEnds(p, ok) ==
  /\ ok \in BOOLEAN
  /\ p \in navGenerating
  /\ navGenerating' = navGenerating \ {p}
  /\ UNCHANGED <<configVars, outcomeVars, delayVars, rebuilding, schedVars, onePagePath, forceReload, addressablePages, pages,
                 currentPageViewed, currentOpenedPages, phase, navRequested>>
  /\ invalidated' = Tracked({})
  /\ navPending' = NavPending

\* The generation ends one way or the other.
NavGenerateDone(p) == \E ok \in BOOLEAN : NavGenerateEnds(p, ok)

\* regenerateAffectedPages(filePaths) up to its first await. (Bound: one
\* invocation at a time.)
RegenerateAffectedPages(filePaths) ==
  LET opened == OpenedPagesToRegenerate(filePaths)
      async == AsyncPagesToRegenerate(filePaths)
      tasks == PageGenerationTasks(opened, async)
  IN /\ Serving
     /\ runs["rebuild"] = IdleRun
     /\ toRebuild' = toRebuild \cup FilterMarked(filePaths)
     /\ runs' = IF Len(opened) + Len(async) = 0 THEN runs
                ELSE [runs EXCEPT !["rebuild"] = RunPageGenerationTasks(tasks)]
     /\ UNCHANGED <<configVars, outcomeVars, delayVars, rebuilding, now, stopGenerationTimeThreshold, backgroundBuildMode, siteVars>>
     /\ invalidated' = Tracked(AffectedPages(filePaths))
     /\ navPending' = NavPending

\* runPageGenerationTasks has resolved or rejected: regenerateAffectedPages goes
\* on to writeSiteData, or to its catch.
RegenerateAfterTasks ==
  /\ runs["rebuild"].status \in {"returned", "threw"}
  /\ runs' = [runs EXCEPT !["rebuild"] = CallerGoesOn(@)]
  /\ UNCHANGED <<configVars, outcomeVars, delayVars, rebuilding, now, stopGenerationTimeThreshold, backgroundBuildMode, toRebuild,
                 siteVars>>
  /\ invalidated' = Tracked({})
  /\ navPending' = NavPending

\* Every page is taken, in toRebuild or not.
PagesMarkedToRebuild_AllPages == pages

\* pagesToRebuild of generatePagesMarkedToRebuild: the pages in toRebuild.
PagesMarkedToRebuild == SelectSeq(pages, LAMBDA p : p \in toRebuild)

\* _backgroundBuildNotViewedFiles with toRebuild.size === 0: it returns false
\* and no task is run.
BackgroundBuildSkipped ==
  [IdleRun EXCEPT !.status = "returned", !.isCompleted = FALSE]

\* _backgroundBuildNotViewedFiles() up to its first await: the background fill.
\* (Bound: one invocation at a time.)
BackgroundBuildNotViewedFiles ==
  /\ Serving
  /\ runs["fill"] = IdleRun
  /\ runs' = [runs EXCEPT !["fill"] =
       IF toRebuild = {}
       THEN BackgroundBuildSkipped
       ELSE RunPageGenerationTasks(<<[mode |-> "async", pages |-> PagesMarkedToRebuild]>>)]
  /\ UNCHANGED <<configVars, outcomeVars, delayVars, rebuilding, now, stopGenerationTimeThreshold, backgroundBuildMode, toRebuild,
                 siteVars>>
  /\ invalidated' = Tracked({})
  /\ navPending' = NavPending

\* runPageGenerationTasks of the background fill has resolved or rejected:
\* _backgroundBuildNotViewedFiles returns its result.
BackgroundBuildReturns ==
  /\ runs["fill"].status \in {"returned", "threw"}
  /\ runs' = [runs EXCEPT !["fill"] = CallerGoesOn(@)]
  /\ UNCHANGED <<configVars, outcomeVars, delayVars, rebuilding, now, stopGenerationTimeThreshold, backgroundBuildMode, toRebuild,
                 siteVars>>
  /\ invalidated' = Tracked({})
  /\ navPending' = NavPending

\* The lists of at most MaxOpened keys.
UrlLists == UNION {[1..n -> SiteKeys] : n \in 0..MaxOpened}

\* The site as its constructor leaves it, for every configuration; the site
\* configuration lists the pages collectAddressablePages will find.
SiteInit ==
  /\ now = 0
  /\ stopGenerationTimeThreshold = 0
  /\ backgroundBuildMode \in BOOLEAN
  /\ toRebuild = {}
  /\ runs = [r \in Slots |-> IdleRun]
  /\ onePagePath \in {0} \cup SiteKeys
  /\ forceReload \in BOOLEAN
  /\ addressablePages \in {Interval(1, n) : n \in 0..NSitePages}
  /\ pages = <<>>
  /\ currentPageViewed = onePagePath
  /\ currentOpenedPages = <<>>
  /\ phase = "new"
  /\ navRequested = {}
  /\ navGenerating = {}
  /\ siteConfig = <<>>
  /\ addressablePagesSource = addressablePages
  /\ thrown = NoError
  /\ generatePromise = "pending"
  /\ siteDataWritten = FALSE
  /\ pendingArgs = <<>>
  /\ timer = 0
  /\ calls = <<>>
  /\ executions = <<>>
  /\ rebuilding = "none"
  /\ invalidated = {}
  /\ navPending = {}

\* generate(), then navigation: the viewer changes the page viewed, the delayed
\* rebuild of the page viewed runs, and the delayed background fill runs.
SiteNext ==
  \/ Generate
  \/ GenerateAfterPages
  \/ LandingGenerateDone
  \/ \E k \in SiteKeys : ChangeCurrentPage(k)
  \/ RebuildPageBeingViewed
  \/ \E p \in SiteKeys : NavGenerateDone(p)
  \/ BackgroundBuildNotViewedFiles
  \/ BackgroundBuildReturns
  \/ AsyncScheduler
  \/ Tick
  \/ StopOngoingBuilds

SpecSite == SiteInit /\ [][SiteNext]_vars

\* generate(), then changes: the viewer sends its opened pages and the watcher
\* the changed paths.
RebuildNext ==
  \/ Generate
  \/ GenerateAfterPages
  \/ LandingGenerateDone
  \/ \E urls \in UrlLists : ChangeCurrentOpenedPages(urls)
  \/ \E filePaths \in SUBSET FilePaths : RegenerateAffectedPages(filePaths)
  \/ RegenerateAfterTasks
  \/ Scheduler
  \/ Tick
  \/ StopOngoingBuilds

SpecRebuild == SiteInit /\ [][RebuildNext]_vars

-----------------------------------------------------------------------------
\* The site configuration and collectAddressablePages.

\* Number of file names without extension under the root of a site.
NStems == 1
\* Most entries of the pages array of a site configuration.
MaxEntries == 2
\* Most paths of a list-valued src.
MaxSrcList == 2
\* Most override properties one entry specifies.
MaxGiven == 2

\* The extensions of page sources, in the order walkSync lists files.
ExtOrder == <<"mbd", "md">>

\* The files under the root: a source path is a name and an extension.
Paths == [stem : 1..NStems, ext : Range(ExtOrder)]

\* The files in the order walkSync lists them.
PathOrder ==
  [i \in 1..(NStems * Len(ExtOrder)) |->
     [stem |-> ((i - 1) \div Len(ExtOrder)) + 1,
      ext |-> ExtOrder[((i - 1) % Len(ExtOrder)) + 1]]]

\* The override properties of an entry of the pages array.
Props == {"title", "layout", "frontmatter", "searchable", "externalScripts"}

\* The value of a property an object does not define; the values entries give
\* are positive.
Undefined == 0

\* The properties of an entry at position i that specifies the properties
\* in given: the value of a property stands for the entry that declared it.
PropsOf(given, i) == [k \in Props |-> IF k \in given THEN i ELSE Undefined]

\* The sets of properties one entry specifies.
Givens == {given \in SUBSET Props : Cardinality(given) <= MaxGiven}

\* The entries a site configuration may hold at position i: a src entry with
\* the list of its paths (a single string is a list of one), or a glob entry
\* with the files its globs match, which are some.
Entries(i) ==
  {[kind |-> "src", src |-> l, matches |-> {}, props |-> PropsOf(given, i)] :
     l \in UNION {[1..n -> Paths] : n \in 1..MaxSrcList}, given \in Givens}
  \cup
  {[kind |-> "glob", src |-> <<>>, matches |-> m, props |-> PropsOf(given, i)] :
     m \in (SUBSET Paths) \ {{}}, given \in Givens}

\* getPageGlobPaths(page, pagesExclude): the matched files as walkSync lists them.
GetPageGlobPaths(page) == SelectSeq(PathOrder, LAMBDA p : p \in page.matches)

RECURSIVE PagesFromSrc(_, _)
\* pagesFromSrc: one page per path of every src entry from position i on.
PagesFromSrc(config, i) ==
  IF i > Len(config) THEN <<>>
  ELSE (IF config[i].kind = "src"
        THEN [j \in 1..Len(config[i].src) |->
                [src |-> config[i].src[j], props |-> config[i].props]]
        ELSE <<>>)
       \o PagesFromSrc(config, i + 1)

\* The src of the first page from position i on whose src an earlier page
\* has, alone.
DuplicatePages_FirstOnly(fromSrc, i) ==
  LET later == {j \in i..Len(fromSrc) : \E h \in 1..(j - 1) : fromSrc[h].src = fromSrc[j].src}
  IN IF later = {} THEN <<>>
     ELSE <<fromSrc[CHOOSE j \in later : \A h \in later : j <= h].src>>

RECURSIVE DuplicatePages(_, _)
\* duplicatePages: the src of every page from position i on whose src an
\* earlier page has.
DuplicatePages(fromSrc, i) ==
  IF i > Len(fromSrc) THEN <<>>
  ELSE (IF \E j \in 1..(i - 1) : fromSrc[j].src = fromSrc[i].src
        THEN <<fromSrc[i].src>>
        ELSE <<>>)
       \o DuplicatePages(fromSrc, i + 1)

\* The properties a page collected from a glob takes from its entry.
GlobPageProps(page) ==
  [k \in {"searchable", "layout", "frontmatter"} |-> page.props[k]]

RECURSIVE PagesFromGlobs(_, _)
\* pagesFromGlobs: one page per matched file of every glob entry from
\* position i on.
PagesFromGlobs(config, i) ==
  IF i > Len(config) THEN <<>>
  ELSE (IF config[i].kind = "glob"
        THEN LET filePaths == GetPageGlobPaths(config[i])
             IN [j \in 1..Len(filePaths) |->
                   [src |-> filePaths[j], props |-> GlobPageProps(config[i])]]
        ELSE <<>>)
       \o PagesFromGlobs(config, i + 1)

\* The pages in the order of the pages of src entries before those of globs.
MergeOrder_SrcFirst(fromGlobs, fromSrc) == fromSrc \o fromGlobs

\* pagesFromGlobs.concat(pagesFromSrc)
MergeOrder(fromGlobs, fromSrc) == fromGlobs \o fromSrc

\* A page object with its properties as they are, undefined ones included.
OmitByIsUndefined_Kept(props) == props

\* _.omitBy(page, _.isUndefined)
OmitByIsUndefined(props) ==
  [k \in {k \in DOMAIN props : props[k] # Undefined} |-> props[k]]

\* { ...a, ...b }
Spread(a, b) ==
  [k \in DOMAIN a \cup DOMAIN b |-> IF k \in DOMAIN b THEN b[k] ELSE a[k]]

\* One turn of the forEach over the pages: filteredPages[page.src] afterwards.
\* filteredPages is the object's values in the order of insertion of its keys.
MergePage(filteredPages, page) ==
  LET filteredPage == OmitByIsUndefined(page.props)
  IN IF \E i \in 1..Len(filteredPages) : filteredPages[i].src = page.src
     THEN [i \in 1..Len(filteredPages) |->
             IF filteredPages[i].src = page.src
             THEN [src |-> page.src, props |-> Spread(filteredPages[i].props, filteredPage)]
             ELSE filteredPages[i]]
     ELSE Append(filteredPages, [src |-> page.src, props |-> filteredPage])

RECURSIVE FilteredPages(_, _)
\* The forEach over the pages: Object.values(filteredPages) after it.
FilteredPages(filteredPages, rest) ==
  IF rest = <<>> THEN filteredPages
  ELSE FilteredPages(MergePage(filteredPages, Head(rest)), Tail(rest))

\* FsUtil.removeExtensionPosix(page.src)
RemoveExtensionPosix(path) == path.stem

\* What collectAddressablePages assigns to this.addressablePages.
ResolvedPages(config) ==
  FilteredPages(<<>>, MergeOrder(PagesFromGlobs(config, 1), PagesFromSrc(config, 1)))

\* readSiteConfig after the site configuration file got a further entry.
ReadSiteConfig(entry) ==
  /\ Len(siteConfig) < MaxEntries
  /\ siteConfig' = Append(siteConfig, entry)
  /\ thrown' = NoError
  /\ UNCHANGED <<schedVars, siteVars, addressablePagesSource, outcomeVars, delayVars,
                 rebuilding>>
  /\ invalidated' = Tracked({})
  /\ navPending' = NavPending

\* The array keeps its elements.
ClearedSource_Kept(source) == source

\* this.addressablePagesSource.length = 0.
ClearedSource(source) == <<>>

\* addressablePagesSource after collectAddressablePages has emptied it and
\* pushed the key of every addressable page.
CollectedSource(source, collected) ==
  ClearedSource(source) \o [i \in 1..Len(collected) |-> RemoveExtensionPosix(collected[i].src)]

\* collectAddressablePages(): throws on duplicate src entries, and sets
\* addressablePages and addressablePagesSource otherwise.
CollectAddressablePages ==
  LET duplicatePages == DuplicatePages(PagesFromSrc(siteConfig, 1), 1)
  IN IF Len(duplicatePages) > 0
     THEN /\ thrown' = Uniq(duplicatePages)
          /\ UNCHANGED <<schedVars, siteVars, siteConfig, addressablePagesSource,
                         outcomeVars, delayVars, rebuilding>>
          /\ invalidated' = Tracked({})
          /\ navPending' = NavPending
     ELSE /\ addressablePages' = ResolvedPages(siteConfig)
          /\ addressablePagesSource' =
               CollectedSource(addressablePagesSource, addressablePages')
          /\ thrown' = NoError
          /\ UNCHANGED <<schedVars, onePagePath, forceReload, pages, currentPageViewed,
                         currentOpenedPages, phase, navRequested, navGenerating,
                         siteConfig, outcomeVars, delayVars, rebuilding>>
          /\ invalidated' = Tracked({})
          /\ navPending' = NavPending

\* The site as its constructor leaves it, before the site configuration is read.
ResolveInit ==
  /\ now = 0
  /\ stopGenerationTimeThreshold = 0
  /\ backgroundBuildMode = FALSE
  /\ toRebuild \in {{}, SiteKeys}
  /\ runs = [r \in Slots |-> IdleRun]
  /\ onePagePath = 0
  /\ forceReload = FALSE
  /\ addressablePages = <<>>
  /\ pages = <<>>
  /\ currentPageViewed = 0
  /\ currentOpenedPages = <<>>
  /\ phase = "new"
  /\ navRequested = {}
  /\ navGenerating = {}
  /\ siteConfig = <<>>
  /\ addressablePagesSource = <<>>
  /\ thrown = NoError
  /\ generatePromise = "pending"
  /\ siteDataWritten = FALSE
  /\ pendingArgs = <<>>
  /\ timer = 0
  /\ calls = <<>>
  /\ executions = <<>>
  /\ rebuilding = "none"
  /\ invalidated = {}
  /\ navPending = {}

\* The site configuration grows entry by entry, and the pages are collected
\* after any number of its changes.
ResolveNext ==
  \/ \E entry \in Entries(Len(siteConfig) + 1) : ReadSiteConfig(entry)
  \/ CollectAddressablePages

SpecResolve == ResolveInit /\ [][ResolveNext]_vars

-----------------------------------------------------------------------------
\* generate(), then changes of source files while the viewer keeps pages
\* opened and the pages not viewed are built in the background.
InvalidateNext ==
  \/ Generate
  \/ GenerateAfterPages
  \/ LandingGenerateDone
  \/ \E urls \in UrlLists : ChangeCurrentOpenedPages(urls)
  \/ \E filePaths \in SUBSET FilePaths : RegenerateAffectedPages(filePaths)
  \/ RegenerateAfterTasks
  \/ BackgroundBuildNotViewedFiles
  \/ BackgroundBuildReturns
  \/ Scheduler

SpecInvalidate == SiteInit /\ [][InvalidateNext]_vars

-----------------------------------------------------------------------------
\* The delayed operations: delay(func, 1000) of Site.prototype.

\* The wait of delay, in ticks of the clock (1000 ms, scaled down).
W == 2
\* Last value of the clock while a delayed operation is called.
MaxDelayTime == 5
\* Most calls of a delayed operation.
MaxCalls == 3

\* The arguments of one call: a path, or an array of paths.
ArgLists == UNION {[1..n -> SiteKeys] : n \in 1..MaxOpened}

\* The timer of a delayed operation is due.
TimerDue == timer # 0 /\ now >= timer

\* The timer after a call at time t: the window starts anew.
TimerAfterCall(t) == t + W

\* The array of the arguments as it is.
UniquePaths_AsCollected(filePathArray) == filePathArray

\* uniquePaths of _rebuildAffectedSourceFiles, uniqueUrls of
\* _rebuildPageBeingViewed: _.uniq of the array of the arguments.
UniquePaths(filePathArray) == Uniq(filePathArray)

\* A call of a delayed operation: its arguments join those collected and the
\* timer is set; a timer that is due has fired before.
DelayCall(args) ==
  /\ Len(calls) < MaxCalls
  /\ ~TimerDue
  /\ pendingArgs' = pendingArgs \o args
  /\ timer' = TimerAfterCall(now)
  /\ calls' = Append(calls, [time |-> now, args |-> args])
  /\ UNCHANGED <<schedVars, siteVars, configVars, outcomeVars, executions, rebuilding>>
  /\ invalidated' = Tracked({})
  /\ navPending' = NavPending

\* The timer fires: the wrapped operation is called with the arguments
\* collected, of which it takes each once.
DelayFire ==
  /\ TimerDue
  /\ executions' = Append(executions, [time |-> now, args |-> UniquePaths(pendingArgs)])
  /\ pendingArgs' = <<>>
  /\ timer' = 0
  /\ UNCHANGED <<schedVars, siteVars, configVars, outcomeVars, calls, rebuilding>>
  /\ invalidated' = Tracked({})
  /\ navPending' = NavPending

\* Time passes, up to the time the timer is due.
DelayTick ==
  /\ now < MaxDelayTime
  /\ ~TimerDue
  /\ now' = now + 1
  /\ UNCHANGED <<stopGenerationTimeThreshold, backgroundBuildMode, toRebuild, runs,
                 siteVars, configVars, outcomeVars, delayVars, rebuilding>>
  /\ invalidated' = Tracked({})
  /\ navPending' = NavPending

DelayInit == ResolveInit /\ toRebuild = {}

DelayNext ==
  \/ \E args \in ArgLists : DelayCall(args)
  \/ DelayFire
  \/ DelayTick

SpecDelay == DelayInit /\ [][DelayNext]_vars

-----------------------------------------------------------------------------
\* _rebuildSourceFiles: the rebuild after pages were added or removed.

\* The pages collectAddressablePages may find.
PageLists == {Interval(1, n) : n \in 0..NSitePages}

\* _rebuildSourceFiles() up to its await of removeAsset: updateAddressablePages
\* collects the addressable pages anew. (Bound: one invocation at a time.)
RebuildSourceFiles(collected) ==
  /\ Serving
  /\ rebuilding = "none"
  /\ invalidated = {}
  /\ navPending = {}
  /\ collected # addressablePages
  /\ addressablePages' = collected
  /\ addressablePagesSource' = collected
  /\ rebuilding' = "updated"
  /\ UNCHANGED <<schedVars, onePagePath, forceReload, pages, currentPageViewed,
                 currentOpenedPages, phase, navRequested, navGenerating,
                 siteConfig, thrown, outcomeVars, delayVars>>
  /\ invalidated' = Tracked({})
  /\ navPending' = NavPending

\* removeAsset rejects: the catch of _rebuildSourceFiles takes the error.
RemoveAssetFails ==
  /\ rebuilding = "updated"
  /\ rebuilding' = "none"
  /\ UNCHANGED <<schedVars, siteVars, configVars, outcomeVars, delayVars>>
  /\ invalidated' = Tracked({})
  /\ navPending' = NavPending

\* The arguments rebuildPageBeingViewed has collected, had rebuildRequiredPages
\* not called it.
RequestPageBeingViewed_NotCalled(requested) == requested

\* The arguments rebuildPageBeingViewed has collected once rebuildRequiredPages
\* has called it.
RequestPageBeingViewed(requested) == requested \cup {currentPageViewed}

\* rebuildRequiredPages() up to its first await: in lazy mode the pages are
\* mapped and the rebuild of the page viewed is requested; otherwise
\* buildSourceFiles starts generatePages. (Bound: one invocation of
\* generatePages at a time.)
RebuildRequiredPages ==
  /\ rebuilding = "updated"
  /\ pages' = addressablePages
  /\ IF onePagePath # 0
     THEN /\ navRequested' = RequestPageBeingViewed(navRequested)
          /\ rebuilding' = "lazy"
          /\ runs' = runs
     ELSE /\ runs["build"] = IdleRun
          /\ runs' = [runs EXCEPT !["build"] =
                RunPageGenerationTasks(<<[mode |-> "async", pages |-> pages']>>)]
          /\ rebuilding' = "full"
          /\ navRequested' = navRequested
  /\ UNCHANGED <<now, stopGenerationTimeThreshold, backgroundBuildMode, toRebuild,
                 onePagePath, forceReload, addressablePages, currentPageViewed,
                 currentOpenedPages, phase, navGenerating,
                 configVars, outcomeVars, delayVars>>
  /\ invalidated' = Tracked({})
  /\ navPending' = NavPending

\* rebuildRequiredPages goes on after its await of rebuildPageBeingViewed, which
\* is at some time after the call: lazyBuildAllPagesNotViewed.
RebuildRequiredGoesOn ==
  /\ rebuilding = "lazy"
  /\ toRebuild' = LazyBuildAllPagesNotViewed
  /\ rebuilding' = "none"
  /\ UNCHANGED <<now, stopGenerationTimeThreshold, backgroundBuildMode, runs,
                 siteVars, configVars, outcomeVars, delayVars>>
  /\ invalidated' = Tracked({})
  /\ navPending' = NavPending

\* generatePages has resolved or rejected: buildSourceFiles, rebuildRequiredPages
\* and _rebuildSourceFiles go on.
RebuildAfterPages ==
  /\ rebuilding = "full"
  /\ runs["build"].status \in {"returned", "threw"}
  /\ runs' = [runs EXCEPT !["build"] = CallerGoesOn(@)]
  /\ rebuilding' = "none"
  /\ UNCHANGED <<now, stopGenerationTimeThreshold, backgroundBuildMode, toRebuild,
                 siteVars, configVars, outcomeVars, delayVars>>
  /\ invalidated' = Tracked({})
  /\ navPending' = NavPending

\* generate(), then navigation and rebuilds after pages were added or removed.
StructureNext ==
  \/ Generate
  \/ GenerateAfterPages
  \/ LandingGenerateDone
  \/ \E k \in SiteKeys : ChangeCurrentPage(k)
  \/ RebuildPageBeingViewed
  \/ \E p \in SiteKeys : NavGenerateDone(p)
  \/ \E collected \in PageLists : RebuildSourceFiles(collected)
  \/ RemoveAssetFails
  \/ RebuildRequiredPages
  \/ RebuildRequiredGoesOn
  \/ RebuildAfterPages
  \/ AsyncScheduler
  \/ Tick
  \/ StopOngoingBuilds

SpecStructure == SiteInit /\ [][StructureNext]_vars

-----------------------------------------------------------------------------
\* generate(), then background builds and rebuilds after pages were added or
\* removed.
FillNext ==
  \/ Generate
  \/ GenerateAfterPages
  \/ LandingGenerateDone
  \/ RebuildPageBeingViewed
  \/ \E p \in SiteKeys : NavGenerateDone(p)
  \/ \E collected \in PageLists : RebuildSourceFiles(collected)
  \/ RemoveAssetFails
  \/ RebuildRequiredPages
  \/ RebuildRequiredGoesOn
  \/ RebuildAfterPages
  \/ BackgroundBuildNotViewedFiles
  \/ BackgroundBuildReturns
  \/ AsyncScheduler

\* page.generate or writeSiteData of a page of the background build completes.
FillCompletes ==
  \E p \in PageSet : AsyncGenerateDone("fill", p) \/ AsyncWriteDone("fill", p)

\* Every page.generate and writeSiteData the background build has started
\* eventually completes.
SpecFillFair == SiteInit /\ [][FillNext]_vars /\ WF_vars(FillCompletes)

-----------------------------------------------------------------------------
\* The operations that add to toRebuild or read it for the viewer, with or
\* without a landing page: generate(), the changes of page, the rebuilds after
\* changes of source files and after pages were added or removed. (Bound: no
\* page is opened besides the page viewed, so that every task is concurrent.)
ModeNext ==
  \/ Generate
  \/ GenerateAfterPages
  \/ LandingGenerateDone
  \/ \E k \in SiteKeys : ChangeCurrentPage(k)
  \/ \E filePaths \in SUBSET FilePaths : RegenerateAffectedPages(filePaths)
  \/ RegenerateAfterTasks
  \/ \E collected \in PageLists : RebuildSourceFiles(collected)
  \/ RemoveAssetFails
  \/ RebuildRequiredPages
  \/ RebuildRequiredGoesOn
  \/ RebuildAfterPages
  \/ AsyncScheduler

SpecMode == SiteInit /\ [][ModeNext]_vars

-----------------------------------------------------------------------------
\* Properties of the scheduler.

\* The pages of the concurrent task of an invocation.
AsyncPages(rec) ==
  UNION {Range(rec.tasks[i].pages) :
         i \in {j \in 1..Len(rec.tasks) : rec.tasks[j].mode = "async"}}

\* The pages of all tasks of an invocation.
AllTaskPages(rec) == UNION {Range(rec.tasks[i].pages) : i \in 1..Len(rec.tasks)}

\* C1: in a concurrent task the number of pages whose generate call has started
\* and not yet completed never exceeds MAX_CONCURRENT_PAGE_GENERATION_PROMISES.
C1_InFlightAtMostK ==
  \A r \in Slots :
    Cardinality(runs[r].generating) <= MAX_CONCURRENT_PAGE_GENERATION_PROMISES

\* The pool is full, pages wait in the queue and a replacement has been dispatched.
C1_Witness ==
  \E r \in Slots :
    /\ Cardinality(runs[r].generating) = MAX_CONCURRENT_PAGE_GENERATION_PROMISES
    /\ Len(runs[r].pageGenerationQueue) > 0
    /\ runs[r].done # {}

\* The horizon passed the start of a task with at least one page while it was
\* under way, in background-build mode.
StoppedTask(rec) ==
  /\ backgroundBuildMode
  /\ rec.stopIdx # 0
  /\ Len(rec.tasks[rec.stopIdx].pages) > 0

\* The task under way when the horizon advanced has resolved.
StoppedTaskResolved(rec) == Len(rec.results) >= rec.stopIdx

\* C2 as stated: a task, sequential or concurrent, whose start the horizon passed
\* before it completed reports completed = false (absent generation failures).
C2_ReportsFalseWheneverStopped ==
  \A r \in Slots :
    (StoppedTask(runs[r]) /\ StoppedTaskResolved(runs[r]) /\ runs[r].failed = {})
      => runs[r].results[runs[r].stopIdx] = FALSE

\* C2 amended, its result: a concurrent task then reports false; a sequential task
\* reports false exactly if one of its pages was not yet dispatched when the
\* horizon advanced, and true if the advance came during its last page; an
\* invocation raises an error only after a generation failure.
C2_ResultWhenStopped ==
  \A r \in Slots :
    LET rec == runs[r] IN
    /\ (StoppedTask(rec) /\ StoppedTaskResolved(rec) /\ rec.failed = {})
         => rec.results[rec.stopIdx] =
              (rec.tasks[rec.stopIdx].mode = "sequential" /\ rec.atStop = {})
    /\ rec.status = "threw" => rec.failed # {}

\* C2 amended: the result above, and the stopped task eventually resolves unless
\* a generation fails.
C2_StoppedTaskFinishes ==
  /\ []C2_ResultWhenStopped
  /\ \A r \in Slots :
       StoppedTask(runs[r])
         ~> (StoppedTaskResolved(runs[r]) \/ runs[r].failed # {})

\* A stopped concurrent task with pages left in its queue has resolved false.
C2_Witness ==
  \E r \in Slots :
    LET rec == runs[r] IN
    /\ StoppedTask(rec) /\ StoppedTaskResolved(rec) /\ rec.failed = {}
    /\ rec.tasks[rec.stopIdx].mode = "async"
    /\ rec.atStop # {}
    /\ rec.results[rec.stopIdx] = FALSE

\* C3: once the horizon has passed the start of a task under way, the pages of
\* the task not dispatched at that moment are never dispatched by it and keep
\* their membership of toRebuild; a page already dispatched stays in its generate
\* call until the call completes, and a completed page is no longer in toRebuild.
C3_CancellationFrame ==
  \A r \in Slots :
    LET rec == runs[r] IN
    StoppedTask(rec) =>
      /\ rec.atStop \cap Range(rec.order) = {}
      /\ \A p \in rec.atStop : (p \in toRebuild) <=> (p \in rec.pendAtStop)
      /\ \A p \in Range(rec.order) :
           /\ p \in rec.generating \cup SequentialGenerating(rec)
                      \cup rec.done \cup rec.failed
           /\ p \in rec.done => p \notin toRebuild

\* A cancelled concurrent task: a page dispatched before the stop has completed
\* and left toRebuild, a page not dispatched is still in toRebuild.
C3_Witness ==
  \E r \in Slots :
    LET rec == runs[r] IN
    /\ StoppedTask(rec) /\ StoppedTaskResolved(rec)
    /\ rec.generating = {} /\ rec.writing = {}
    /\ rec.atStop \cap toRebuild # {}
    /\ rec.done # {} /\ rec.done \cap toRebuild = {}

\* C4: a concurrent task has resolved true only if its queue is empty, none of
\* its pages is inside generate and every one of them completed successfully.
C4_ResolvesTrueOnlyWhenAllDone ==
  \A r \in Slots :
    LET rec == runs[r] IN
    rec.settled = "true" =>
      /\ rec.pageGenerationQueue = <<>>
      /\ rec.generating = {}
      /\ AsyncPages(rec) \subseteq rec.done
      /\ AsyncPages(rec) \subseteq Range(rec.order)

\* A concurrent task of more pages than the pool holds has resolved true.
C4_Witness ==
  \E r \in Slots :
    /\ runs[r].settled = "true"
    /\ runs[r].context.numPagesToGenerate > MAX_CONCURRENT_PAGE_GENERATION_PROMISES

\* C5: runPageGenerationTasks returns false exactly if one of its tasks resolved
\* false or was skipped, also when other tasks follow it; when it returns
\* true, every page of every task has completed its generate call.
C5_RunResult ==
  \A r \in Slots :
    LET rec == runs[r] IN
    rec.status = "returned" =>
      /\ rec.isCompleted = FALSE <=>
           \/ \E i \in 1..Len(rec.results) : rec.results[i] = FALSE
           \/ Len(rec.results) < Len(rec.tasks)
      /\ rec.isCompleted => AllTaskPages(rec) \subseteq rec.done

\* A sequential task was cut short, the concurrent task after it was skipped and
\* the invocation returned false.
C5_Witness ==
  \E r \in Slots :
    LET rec == runs[r] IN
    /\ rec.status = "returned"
    /\ Len(rec.tasks) = 2
    /\ rec.results = <<FALSE>>
    /\ rec.isCompleted = FALSE

-----------------------------------------------------------------------------
\* Properties of the site.

\* C6: a key leaves toRebuild only in a step in which a generate call of its
\* page, made by a scheduler or by the rebuild of the page viewed, completes:
\* never before the call is made and never while it is under way.
C6_RemovedOnlyOnCompletion ==
  [][\A p \in PageSet :
       (p \in toRebuild /\ p \notin toRebuild') =>
         \/ p \in navGenerating /\ p \notin navGenerating'
         \/ \E r \in Slots :
              p \in Generating(runs[r]) /\ p \notin Generating(runs'[r])]_vars

\* C7: while the landing page is generated nothing else is, and the step that
\* completes it with success leaves in toRebuild exactly the keys of the other
\* pages, with no other generate call made.
C7_LazyBuildLeavesOthersPending ==
  /\ [](phase = "landing" =>
          /\ onePagePath \in Range(pages)
          /\ toRebuild = {}
          /\ navGenerating = {}
          /\ \A r \in Slots : runs[r] = IdleRun)
  /\ [][(phase = "landing" /\ phase' = "built") =>
          /\ toRebuild' = Range(pages) \ {onePagePath}
          /\ navGenerating' = {}
          /\ \A r \in Slots : runs'[r] = IdleRun]_vars

\* The lazy build of a site of NSitePages pages is over: the other pages are
\* pending and the landing page is not.
C7_Witness ==
  /\ phase = "built"
  /\ onePagePath # 0
  /\ Len(pages) = NSitePages
  /\ toRebuild = Range(pages) \ {onePagePath}
  /\ toRebuild # {}
  /\ navGenerating = {}

\* The pages a change of filePaths affects.
Affected(filePaths) ==
  {p \in Range(pages) : 0 \in filePaths \/ forceReload \/ p \in filePaths}

\* The position of the first v in s.
Position(s, v) == CHOOSE i \in 1..Len(s) : s[i] = v /\ \A j \in 1..(i - 1) : s[j] # v

\* q lists elements of ref in the order of their first positions in ref, each once.
Ordered(q, ref) ==
  /\ Range(q) \subseteq Range(ref)
  /\ \A i, j \in 1..Len(q) : i < j => Position(ref, q[i]) < Position(ref, q[j])

\* C8: in lazy mode a call of regenerateAffectedPages adds every affected page
\* that is not opened to toRebuild and hands it to no task; hands every affected
\* opened page to the task it starts at once, without adding it; and does neither
\* to a page that is not affected. An invocation generates only pages of its tasks.
C8_LazyRebuildPartition ==
  /\ [](\A r \in Slots : Range(runs[r].order) \subseteq AllTaskPages(runs[r]))
  /\ [][\A filePaths \in SUBSET FilePaths :
          (onePagePath # 0 /\ RegenerateAffectedPages(filePaths)) =>
            LET rec == runs'["rebuild"]
                opened == Range(currentOpenedPages)
            IN \A p \in Range(pages) :
                 /\ (p \in Affected(filePaths) /\ p \notin opened) =>
                      p \in toRebuild' /\ p \notin AllTaskPages(rec)
                 /\ (p \in Affected(filePaths) /\ p \in opened) =>
                      /\ p \in AllTaskPages(rec)
                      /\ rec.order # <<>>
                      /\ p \in toRebuild' <=> p \in toRebuild
                 /\ p \notin Affected(filePaths) =>
                      /\ p \notin AllTaskPages(rec)
                      /\ p \in toRebuild' <=> p \in toRebuild]_vars

\* A rebuild without force-reload has put the landing page, which is not opened,
\* into toRebuild and is generating an opened page.
C8_Witness ==
  LET rec == runs["rebuild"] IN
  /\ onePagePath # 0 /\ ~forceReload
  /\ onePagePath \in toRebuild
  /\ onePagePath \notin Range(currentOpenedPages)
  /\ rec.status = "running"
  /\ rec.seqPhase = "gen"
  /\ Range(rec.order) \subseteq Range(currentOpenedPages)

C10_GlobalChangeAffectsEveryPage ==
  [][\A filePaths \in SUBSET FilePaths :
       ((0 \in filePaths \/ forceReload) /\ RegenerateAffectedPages(filePaths)) =>
         LET rec == runs'["rebuild"] IN
         IF onePagePath = 0
         THEN /\ Range(pages) = AsyncPages(rec)
              /\ pages # <<>> => rec.generating # {}
         ELSE \A p \in Range(pages) :
                IF p \in Range(currentOpenedPages)
                THEN p \in AllTaskPages(rec) /\ rec.order # <<>>
                ELSE p \in toRebuild']_vars

\* With force-reload set, a lazy rebuild is generating the opened pages and every
\* other page, the landing page included, is in toRebuild.
C10_Witness ==
  LET rec == runs["rebuild"] IN
  /\ forceReload /\ onePagePath # 0
  /\ Len(pages) = NSitePages
  /\ rec.status = "running"
  /\ rec.order # <<>>
  /\ AllTaskPages(rec) = Range(currentOpenedPages)
  /\ toRebuild = Range(pages) \ Range(currentOpenedPages)
  /\ onePagePath \in toRebuild

\* C11: a step that begins a foreground rebuild (the rebuild of the page viewed,
\* the change-driven rebuild) sets stopGenerationTimeThreshold to the current
\* time.
C11_ForegroundRebuildAdvancesHorizon ==
  [][(RebuildPageBeingViewed
        \/ \E filePaths \in SUBSET FilePaths : RegenerateAffectedPages(filePaths))
       => stopGenerationTimeThreshold' = now]_vars

-----------------------------------------------------------------------------
\* Properties of failures.

\* C12: once the promise of a concurrent task is rejected, which the failed
\* callback does at once, no further page of the task is dispatched.
C12_NoDispatchAfterRejection ==
  [][\A r \in Slots :
       runs[r].settled = "rejected" =>
         /\ runs[r].failed # {}
         /\ Len(runs'[r].order) <= Len(runs[r].order)]_vars

\* The pages of the sequential tasks of an invocation.
SequentialPages(rec) == AllTaskPages(rec) \ AsyncPages(rec)

\* An invocation that threw out of a sequential task.
SequentialThrew(rec) == rec.status = "threw" /\ rec.settled # "rejected"

\* C13: when the generate call of a page of a sequential task fails, the
\* invocation throws and does nothing more: the failed page is the last one
\* dispatched, no later page of the task and no page of a later task is
\* dispatched, and a key leaves toRebuild only for a page whose generate call
\* succeeded, so the failed page and the pages not attempted keep theirs.
C13_SequentialFailureStops ==
  /\ [](\A r \in Slots :
          LET rec == runs[r] IN
          /\ rec.failed \cap SequentialPages(rec) # {} => SequentialThrew(rec)
          /\ SequentialThrew(rec) =>
            /\ rec.tasks[rec.idx].mode = "sequential"
            /\ Cardinality(rec.failed) = 1
            /\ rec.order[Len(rec.order)] \in rec.failed
            /\ Range(rec.order) = rec.done \cup rec.failed
            /\ rec.done \cap rec.failed = {}
            /\ Range(rec.order) \subseteq
                 UNION {Range(rec.tasks[i].pages) : i \in 1..rec.idx}
            /\ Len(rec.results) = rec.idx - 1)
  /\ [][\A r \in Slots :
          SequentialThrew(runs[r]) => runs'[r] = runs[r]]_vars
  /\ [][\A p \in PageSet :
          (p \in toRebuild /\ p \notin toRebuild') =>
             \E r \in Slots : p \in runs'[r].done /\ p \notin runs[r].done]_vars

\* The second page of a sequential task failed after the first succeeded: a
\* third page and a concurrent task were never started, and the keys of the
\* failed page and of the pages not attempted are still in toRebuild.
C13_Witness ==
  \E r \in Slots :
    LET rec == runs[r] IN
    /\ SequentialThrew(rec)
    /\ Len(rec.tasks) = 2
    /\ Len(rec.tasks[1].pages) > Len(rec.order)
    /\ rec.done # {}
    /\ toRebuild = PageSet \ rec.done

-----------------------------------------------------------------------------
\* Properties of the order of generation.

\* The pages of the sequential tasks an invocation has dispatched, in the order
\* of their dispatch.
SequentialOrder(rec) == SelectSeq(rec.order, LAMBDA p : p \in SequentialPages(rec))

\* The pages of the sequential tasks of an invocation, in the order of submission.
SequentialSubmitted(rec) ==
  IF rec.tasks # <<>> /\ rec.tasks[1].mode = "sequential"
  THEN rec.tasks[1].pages ELSE <<>>

\* C14: the pages of a sequential task are dispatched in the order of
\* submission, and a page is dispatched only when the generate call of every
\* page dispatched before it has completed with success; so at most one page
\* of the task is inside generate.
C14_SequentialInOrderNoOverlap ==
  \A r \in Slots :
    LET rec == runs[r]
        o == SequentialOrder(rec)
    IN /\ Len(o) <= Len(SequentialSubmitted(rec))
       /\ o = SubSeq(SequentialSubmitted(rec), 1, Len(o))
       /\ \A i \in 1..(Len(o) - 1) : o[i] \in rec.done
       /\ \A p \in SequentialGenerating(rec) : p = o[Len(o)]
       /\ (rec.seqPhase = "gen" /\ rec.status = "running") =>
             o[Len(o)] \notin rec.done \cup rec.failed

\* The third page of a sequential task is inside generate after the first two
\* have completed.
C14_Witness ==
  \E r \in Slots :
    LET rec == runs[r] IN
    /\ rec.status = "running"
    /\ rec.seqPhase = "gen"
    /\ rec.order = <<1, 2, 3>>
    /\ rec.done = {1, 2}
    /\ Len(SequentialSubmitted(rec)) > 3

\* collectAddressablePages returns: what it threw is no error.
CollectReturns == CollectAddressablePages /\ thrown' = NoError

\* The key of a resolved page: its source path without the extension.
Key(page) == RemoveExtensionPosix(page.src)

\* C15: whenever collectAddressablePages returns, no two pages of
\* addressablePages have the same key and no key is twice in
\* addressablePagesSource, whatever src and glob entries the site
\* configuration holds.
C15_OnePagePerKey ==
  [][CollectReturns =>
       /\ \A i, j \in 1..Len(addressablePages') :
            Key(addressablePages'[i]) = Key(addressablePages'[j]) => i = j
       /\ \A i, j \in 1..Len(addressablePagesSource') :
            addressablePagesSource'[i] = addressablePagesSource'[j] => i = j]_vars

\* The page of source path src among resolved pages; it is there.
PageOf(resolved, src) == resolved[CHOOSE i \in 1..Len(resolved) : resolved[i].src = src]

\* The value of property k of a resolved page, Undefined when it has none.
ValueOf(page, k) == IF k \in DOMAIN page.props THEN page.props[k] ELSE Undefined

\* The positions of the glob entries of a site configuration that match src.
GlobsOf(config, src) ==
  {i \in 1..Len(config) : config[i].kind = "glob" /\ src \in config[i].matches}

\* The positions of the src entries of a site configuration that name src.
SrcsOf(config, src) ==
  {i \in 1..Len(config) : config[i].kind = "src" /\ src \in Range(config[i].src)}

\* The value of property k in the latest of the entries at positions, of a
\* site configuration, that specifies it; Undefined when none does.
LatestValue(config, positions, k) ==
  LET specifying == {i \in positions : config[i].props[k] # Undefined}
  IN IF specifying = {} THEN Undefined
     ELSE config[CHOOSE i \in specifying : \A j \in specifying : j <= i].props[k]

\* The properties a page collected from a glob entry carries.
GlobCarried == {"searchable", "layout", "frontmatter"}

\* The value the glob entries of a site configuration give property k of
\* source path src.
GlobDerived(config, src, k) ==
  IF k \in GlobCarried THEN LatestValue(config, GlobsOf(config, src), k) ELSE Undefined

\* C16: whenever collectAddressablePages returns, every source path that
\* both a glob entry and a src entry resolve to has, for each property the
\* src entry specifies, the value of the src entry, whether the glob entry
\* is declared before or after it, and for each property the src entry
\* leaves absent the value derived from the glob entries.
C16_ExplicitOverridesGlob ==
  [][CollectReturns =>
       \A src \in Paths : \A e \in SrcsOf(siteConfig, src) :
         GlobsOf(siteConfig, src) # {} =>
           \A k \in Props :
             ValueOf(PageOf(addressablePages', src), k) =
               IF siteConfig[e].props[k] # Undefined
               THEN siteConfig[e].props[k]
               ELSE GlobDerived(siteConfig, src, k)]_vars

\* A src entry and a glob entry declared after it resolve to one source
\* path, both specify the layout, the glob entry alone specifies searchable,
\* and the collected page has the layout of the src entry and searchable of
\* the glob entry.
C16_Witness ==
  /\ thrown = NoError
  /\ Len(siteConfig) = 2
  /\ siteConfig[1].kind = "src"
  /\ siteConfig[2].kind = "glob"
  /\ siteConfig[1].props["layout"] = 1
  /\ siteConfig[2].props["layout"] = 2
  /\ siteConfig[1].props["searchable"] = Undefined
  /\ siteConfig[2].props["searchable"] = 2
  /\ \E i \in 1..Len(addressablePages) :
       /\ addressablePages[i].src \in Range(siteConfig[1].src) \cap siteConfig[2].matches
       /\ ValueOf(addressablePages[i], "layout") = 1
       /\ ValueOf(addressablePages[i], "searchable") = 2

\* The source paths of a site configuration that only glob entries resolve
\* to, and more than one of them.
SeveralGlobs(config) ==
  {src \in Paths : SrcsOf(config, src) = {} /\ Cardinality(GlobsOf(config, src)) > 1}

\* C17, as stated: whenever collectAddressablePages returns, a page that
\* several glob entries resolve to has, for each of title, layout,
\* frontmatter, searchable and externalScripts, the value of the latest
\* glob entry that specifies it.
C17_LatestEntryWinsEveryProperty ==
  [][CollectReturns =>
       \A src \in SeveralGlobs(siteConfig) : \A k \in Props :
         ValueOf(PageOf(addressablePages', src), k)
           = LatestValue(siteConfig, GlobsOf(siteConfig, src), k)]_vars

\* C17, amended: whenever collectAddressablePages returns, a page that
\* several glob entries resolve to has, for each of layout, frontmatter and
\* searchable, the value of the latest glob entry that specifies it, an
\* entry that leaves the property absent erasing nothing; it has no title
\* and no externalScripts, whatever the glob entries specify.
C17_LatestGlobWinsCarriedProperties ==
  [][CollectReturns =>
       \A src \in SeveralGlobs(siteConfig) : \A k \in Props :
         ValueOf(PageOf(addressablePages', src), k)
           = IF k \in GlobCarried
             THEN LatestValue(siteConfig, GlobsOf(siteConfig, src), k)
             ELSE Undefined]_vars

\* Two glob entries match one file; the first specifies the layout and the
\* title, the second searchable alone; the collected page has the layout of
\* the first, searchable of the second and no title.
C17_Witness ==
  /\ thrown = NoError
  /\ Len(siteConfig) = 2
  /\ siteConfig[1].kind = "glob"
  /\ siteConfig[2].kind = "glob"
  /\ siteConfig[1].props["layout"] = 1
  /\ siteConfig[1].props["title"] = 1
  /\ siteConfig[2].props["layout"] = Undefined
  /\ siteConfig[2].props["searchable"] = 2
  /\ \E i \in 1..Len(addressablePages) :
       /\ addressablePages[i].src \in siteConfig[1].matches \cap siteConfig[2].matches
       /\ SrcsOf(siteConfig, addressablePages[i].src) = {}
       /\ ValueOf(addressablePages[i], "layout") = 1
       /\ ValueOf(addressablePages[i], "searchable") = 2
       /\ ValueOf(addressablePages[i], "title") = Undefined

\* The source paths that the src entries of a site configuration, split into
\* one entry per path, name more than once.
NamedTwice(config) ==
  {src \in Paths :
     Cardinality({ij \in (1..Len(config)) \X (1..MaxSrcList) :
                    /\ config[ij[1]].kind = "src"
                    /\ ij[2] <= Len(config[ij[1]].src)
                    /\ config[ij[1]].src[ij[2]] = src}) > 1}

\* C18: collectAddressablePages throws exactly when src entries name a
\* source path more than once; the error names each such path, once, and
\* addressablePages, addressablePagesSource and toRebuild are as they were
\* before the call.
C18_DuplicateSrcFailsWithoutChange ==
  [][CollectAddressablePages =>
       IF NamedTwice(siteConfig) # {}
       THEN /\ thrown' # NoError
            /\ Range(thrown') = NamedTwice(siteConfig)
            /\ Len(thrown') = Cardinality(NamedTwice(siteConfig))
            /\ UNCHANGED <<addressablePages, addressablePagesSource, toRebuild>>
       ELSE thrown' = NoError]_vars

\* A reload with two source paths named twice each has failed, naming both,
\* on a site that has resolved pages and pages to rebuild.
C18_Witness ==
  /\ Len(thrown) = 2
  /\ Range(thrown) = NamedTwice(siteConfig)
  /\ Len(addressablePages) = 2
  /\ Len(addressablePagesSource) = 2
  /\ toRebuild # {}

\* C19: a lazy build whose landing page is not among the resolved pages
\* fails: generate() passes to no generation of the landing page, no
\* invocation of the scheduler starts, no page is in generation, and
\* toRebuild is as it was.
C19_LandingPageNotFound ==
  [][(Generate /\ onePagePath # 0 /\ onePagePath \notin Range(addressablePages)) =>
       /\ phase' = "failed"
       /\ runs' = runs
       /\ navGenerating' = navGenerating
       /\ \A r \in Slots : Generating(runs'[r]) = {}
       /\ toRebuild' = toRebuild]_vars

\* A lazy build of a site with pages has failed for want of its landing
\* page, and nothing is marked to rebuild.
C19_Witness ==
  /\ phase = "failed"
  /\ onePagePath # 0
  /\ pages # <<>>
  /\ onePagePath \notin Range(pages)
  /\ toRebuild = {}

\* C20: when generate() has met a configuration error or a page generation
\* error, its promise is rejected and it has not written the site data.
C20_ErrorPropagates ==
  phase = "failed" => generatePromise = "rejected" /\ ~siteDataWritten

\* The number of the burst of the i-th call: a call starts a burst when it is
\* the first, or comes W or more after the call before it.
BurstOf(i) ==
  Cardinality({j \in 1..i : j = 1 \/ calls[j].time - calls[j - 1].time >= W})

\* The number of bursts of the calls so far.
NBursts == IF calls = <<>> THEN 0 ELSE BurstOf(Len(calls))

\* The arguments of the calls of burst k.
BurstArgs(k) ==
  UNION {Range(calls[i].args) : i \in {j \in 1..Len(calls) : BurstOf(j) = k}}

\* C21: the wrapped operation has been executed once for every burst of
\* calls less than W apart, but for the burst whose timer is still set; the
\* k-th execution has the arguments of all the calls of the k-th burst,
\* each once. A call W or more after the one before it is a burst of its own.
C21_OneExecutionPerBurst ==
  /\ Len(executions) = IF timer # 0 THEN NBursts - 1 ELSE NBursts
  /\ \A k \in 1..Len(executions) :
       /\ Range(executions[k].args) = BurstArgs(k)
       /\ \A i, j \in 1..Len(executions[k].args) :
            executions[k].args[i] = executions[k].args[j] => i = j

\* Two calls less than W apart with different arguments were executed as
\* one, and a third call W after the second was executed on its own.
C21_Witness ==
  /\ Len(calls) = 3
  /\ Len(executions) = 2
  /\ calls[2].time - calls[1].time < W
  /\ calls[3].time - calls[2].time >= W
  /\ calls[1].args # calls[2].args
  /\ Cardinality(Range(executions[1].args)) = 2

\* generate() of a full build goes on after generatePages has resolved.
FullBuildEnds == GenerateAfterPages /\ runs["build"].status = "returned"

\* No element is twice in a sequence.
NoRepeat(s) == \A i, j \in 1..Len(s) : s[i] = s[j] => i = j

\* A full build starts one concurrent task of one page per addressable page,
\* dispatches no page twice and none but its pages, and writes the site data
\* when, and not before, generatePages has resolved.
FullBuildFrame ==
  /\ (Generate /\ onePagePath = 0) =>
       /\ pages' = addressablePages
       /\ runs'["build"].tasks = <<[mode |-> "async", pages |-> addressablePages]>>
  /\ phase = "full" =>
       /\ ~siteDataWritten
       /\ NoRepeat(runs["build"].order)
       /\ Range(runs["build"].order) \subseteq Range(pages)
  /\ FullBuildEnds => siteDataWritten'

\* C22, as stated: a full build without generation failures starts one
\* concurrent task of one page per addressable page, writes no site data
\* while the task runs, and when it goes on to write the site data every
\* page has completed its generation, once.
C22_FullBuildGeneratesEveryPage ==
  [][/\ FullBuildFrame
     /\ phase = "full" => runs["build"].writing = {}
     /\ FullBuildEnds =>
          /\ runs["build"].done = Range(pages)
          /\ Len(runs["build"].order) = Len(pages)]_vars

\* C22, amended: the same for a full build outside background-build mode. In
\* background-build mode the site data is also written after every page,
\* and only a build that generatePages reports complete has generated every
\* page when it goes on: one that stopOngoingBuilds cancels writes the site
\* data with pages in generation or left out.
C22_CompleteFullBuildGeneratesEveryPage ==
  [][/\ FullBuildFrame
     /\ (phase = "full" /\ ~backgroundBuildMode) => runs["build"].writing = {}
     /\ (FullBuildEnds /\ runs["build"].isCompleted) =>
          /\ runs["build"].done = Range(pages)
          /\ Len(runs["build"].order) = Len(pages)]_vars

\* A full build of a site of NSitePages pages has generated every page and
\* written the site data.
C22_Witness ==
  /\ onePagePath = 0
  /\ phase = "built"
  /\ Len(pages) = NSitePages
  /\ siteDataWritten
  /\ stopGenerationTimeThreshold = 0

\* C23: a rebuild after pages were added or removed maps the pages collected
\* anew. In lazy mode it starts no task and requests the rebuild of the page
\* viewed alone, and when it ends the key of every other page is in
\* toRebuild. Otherwise it starts one concurrent task of all those pages.
C23_StructuralRebuild ==
  [][/\ RebuildRequiredPages =>
          /\ pages' = addressablePages
          /\ onePagePath # 0 =>
               /\ navRequested' = navRequested \cup {currentPageViewed}
               /\ runs' = runs
               /\ navGenerating' = navGenerating
          /\ onePagePath = 0 =>
               /\ runs'["build"].tasks = <<[mode |-> "async", pages |-> addressablePages]>>
               /\ Range(runs'["build"].order) =
                    Range(SubSeq(addressablePages, 1,
                                 Min(Len(addressablePages),
                                     MAX_CONCURRENT_PAGE_GENERATION_PROMISES)))
     /\ RebuildRequiredGoesOn =>
          /\ Range(pages) \ {currentPageViewed} \subseteq toRebuild'
          /\ toRebuild \subseteq toRebuild']_vars

\* A lazy site is in a rebuild after a page was added: the pages are mapped
\* anew, the rebuild of the page viewed was requested and has ended, and
\* lazyBuildAllPagesNotViewed is still to run.
C23_Witness ==
  /\ onePagePath # 0
  /\ rebuilding = "lazy"
  /\ pages = addressablePages
  /\ Len(pages) = NSitePages
  /\ Len(pages) > 1
  /\ currentPageViewed \in Range(pages)
  /\ currentPageViewed \notin toRebuild
  /\ Range(pages) \ {currentPageViewed} # {}
  /\ navRequested = {}
  /\ navGenerating = {}

\* The calls of page.generate an invocation of runPageGenerationTasks has
\* started that have not completed.
InFlight(rec) ==
  Cardinality(rec.generating) + (IF rec.seqPhase = "gen" THEN 1 ELSE 0)

\* The calls of page.generate of the site that have not completed: those of
\* generatePages, regenerateAffectedPages, the background build, and
\* _rebuildPageBeingViewed.
TotalInFlight ==
  InFlight(runs["build"]) + InFlight(runs["rebuild"]) + InFlight(runs["fill"])
    + Cardinality(navGenerating)

\* C24: at any time, the calls of page.generate in flight over all that the
\* site has running are at most MAX_CONCURRENT_PAGE_GENERATION_PROMISES.
C24_TotalInFlightBounded ==
  TotalInFlight <= MAX_CONCURRENT_PAGE_GENERATION_PROMISES

\* C25: once a task stopped by the horizon has resolved, every page of it that
\* was not dispatched is in toRebuild, whichever operation made the task.
C25_UndispatchedPagesPending ==
  \A r \in Slots :
    LET rec == runs[r] IN
    (StoppedTask(rec) /\ StoppedTaskResolved(rec)) => rec.atStop \subseteq toRebuild

\* A concurrent task is under way in slot r: its promise is neither resolved
\* nor rejected.
AsyncPending(r) == runs[r].status = "running" /\ runs[r].settled = "pending"

\* C26: when every started page.generate and writeSiteData completes, every
\* concurrent task, whatever its list of pages, is eventually resolved or
\* rejected.
C26_ConcurrentTaskSettles ==
  \A r \in Slots : AsyncPending(r) ~> ~AsyncPending(r)

\* The pages of the concurrent task under way that were dispatched, in the order
\* of their dispatch.
AsyncOrder(rec) ==
  SelectSeq(rec.order, LAMBDA p : p \in Range(rec.tasks[rec.idx].pages))

\* C27: while a concurrent task of N pages is pending, the first
\* min(MAX_CONCURRENT_PAGE_GENERATION_PROMISES, N) pages of its list were
\* dispatched first, in the step that started it, and the number of further
\* pages dispatched is at most the number of completed generations.
C27_InitialBatch ==
  \A r \in Slots :
    AsyncPending(r) =>
      LET rec == runs[r]
          ps == rec.tasks[rec.idx].pages
          k == Min(MAX_CONCURRENT_PAGE_GENERATION_PROMISES, Len(ps))
      IN /\ Len(AsyncOrder(rec)) >= k
         /\ SubSeq(AsyncOrder(rec), 1, k) = SubSeq(ps, 1, k)
         /\ Len(AsyncOrder(rec)) <= k + Cardinality(rec.done \cap Range(ps))

\* A concurrent task of more pages than the pool has just started: the pool is
\* full, nothing has completed and the other pages wait in the queue.
C27_Witness ==
  \E r \in Slots :
    /\ AsyncPending(r)
    /\ Len(runs[r].tasks[runs[r].idx].pages) > MAX_CONCURRENT_PAGE_GENERATION_PROMISES
    /\ Len(AsyncOrder(runs[r])) = MAX_CONCURRENT_PAGE_GENERATION_PROMISES
    /\ runs[r].done \cap Range(runs[r].tasks[runs[r].idx].pages) = {}
    /\ runs[r].failed = {}
    /\ Len(runs[r].pageGenerationQueue) > 0

\* The callback of page p of the concurrent task in slot r runs to
\* generateProgressBarStatus: page.generate succeeded and, in background-build
\* mode, writeSiteData(false) has completed.
CallbackSucceeds(r, p) ==
  IF backgroundBuildMode
  THEN AsyncWriteDone(r, p)
  ELSE AsyncGenerateDone(r, p) /\ runs'[r].failed = runs[r].failed

\* The pages of a concurrent task beyond the initial batch were dispatched from
\* the last page of the list backwards.
DispatchedInReverse(rec) ==
  LET ps == rec.tasks[rec.idx].pages
      k == Min(MAX_CONCURRENT_PAGE_GENERATION_PROMISES, Len(ps))
      m == Len(AsyncOrder(rec)) - k
  IN /\ m >= 0
     /\ \A i \in 1..m : AsyncOrder(rec)[k + i] = ps[Len(ps) - i + 1]

\* C28: a callback that succeeds while the horizon has not passed the start of
\* its task dispatches exactly one page if the queue is not empty, the last of
\* the queue, and no page if it is empty; so the pages beyond the initial
\* batch are dispatched in the reverse of their order in the list.
C28_ReplacementFromTail ==
  [][\A r \in Slots :
       LET rec == runs[r]
           q == rec.pageGenerationQueue
       IN /\ \A p \in PageSet :
               (CallbackSucceeds(r, p) /\ ~StopGuard(rec.context.startTime)) =>
                 IF q # <<>>
                 THEN /\ runs'[r].order = Append(rec.order, q[Len(q)])
                      /\ runs'[r].pageGenerationQueue = SubSeq(q, 1, Len(q) - 1)
                      /\ runs'[r].generating = (rec.generating \ {p}) \cup {q[Len(q)]}
                 ELSE runs'[r].generating \subseteq rec.generating \ {p}
          /\ (rec.settled \in {"pending", "rejected"} /\ rec.idx \in 1..Len(rec.tasks))
               => DispatchedInReverse(rec)]_vars

\* A concurrent task of four pages with a pool of two has dispatched its last
\* page after the first completion and its third page after the second.
C28_Witness ==
  \E r \in Slots :
    /\ runs[r].settled = "pending"
    /\ runs[r].failed = {}
    /\ Len(runs[r].tasks[runs[r].idx].pages) >= MAX_CONCURRENT_PAGE_GENERATION_PROMISES + 2
    /\ Len(AsyncOrder(runs[r])) = Len(runs[r].tasks[runs[r].idx].pages)
    /\ runs[r].pageGenerationQueue = <<>>
    /\ DispatchedInReverse(runs[r])

\* The positions in the dispatch order of the pages of task j.
DispatchedAt(rec, j) ==
  {n \in 1..Len(rec.order) : rec.order[n] \in Range(rec.tasks[j].pages)}

\* C29: the tasks of runPageGenerationTasks run in the order of the list: when
\* a page of a task has been dispatched, every task before it has resolved,
\* none of its pages is inside generate and all its dispatches came earlier;
\* and the list regenerateAffectedPages makes has its sequential task before
\* its concurrent task.
C29_TasksInListOrder ==
  /\ \A r \in Slots :
       LET rec == runs[r] IN
       \A j \in 1..Len(rec.tasks) :
         DispatchedAt(rec, j) # {} =>
           /\ j <= rec.idx
           /\ Len(rec.results) >= j - 1
           /\ \A i \in 1..(j - 1) :
                /\ Range(rec.tasks[i].pages) \cap rec.generating = {}
                /\ Range(rec.tasks[i].pages) \cap SequentialGenerating(rec) = {}
                /\ \A m \in DispatchedAt(rec, i), n \in DispatchedAt(rec, j) : m < n
  /\ \A opened, async \in {SubSeq(pages, 1, n) : n \in 0..Len(pages)} :
       LET tasks == PageGenerationTasks(opened, async) IN
       \A i, j \in 1..Len(tasks) :
         (tasks[i].mode = "sequential" /\ tasks[j].mode = "async") => i < j

\* The concurrent task of a list of two tasks has dispatched pages after the
\* sequential task before it generated its pages and resolved true.
C29_Witness ==
  \E r \in Slots :
    LET rec == runs[r] IN
    /\ Len(rec.tasks) = 2
    /\ rec.idx = 2
    /\ rec.results = <<TRUE>>
    /\ Range(rec.tasks[1].pages) \subseteq rec.done
    /\ DispatchedAt(rec, 2) # {}
    /\ rec.generating # {}

\* C30: _backgroundBuildNotViewedFiles returns false and runs nothing when
\* toRebuild is empty, and otherwise runs one concurrent task of exactly the
\* pages whose keys are in toRebuild; when it returns true, with no change
\* of a source file since it started, none of the keys of its task is in
\* toRebuild.
C30_BackgroundBuild ==
  [][/\ BackgroundBuildNotViewedFiles =>
          IF toRebuild = {}
          THEN /\ runs'["fill"].status = "returned"
               /\ ~runs'["fill"].isCompleted
               /\ runs'["fill"].tasks = <<>>
               /\ runs'["fill"].order = <<>>
               /\ runs'["fill"].generating = {}
          ELSE /\ Len(runs'["fill"].tasks) = 1
               /\ runs'["fill"].tasks[1].mode = "async"
               /\ NoRepeat(runs'["fill"].tasks[1].pages)
               /\ Range(runs'["fill"].tasks[1].pages) = toRebuild \cap Range(pages)
     /\ (BackgroundBuildReturns /\ runs["fill"].status = "returned"
           /\ runs["fill"].isCompleted) =>
          /\ Len(runs["fill"].tasks) = 1
          /\ Range(runs["fill"].tasks[1].pages) \cap toRebuild = {}
          /\ Range(runs["fill"].tasks[1].pages) = runs["fill"].done]_vars

\* A background build of every page but the page viewed has generated its
\* pages and is about to return true, and toRebuild is empty.
C30_Witness ==
  /\ runs["fill"].status = "returned"
  /\ runs["fill"].isCompleted
  /\ Len(runs["fill"].tasks) = 1
  /\ Len(runs["fill"].tasks[1].pages) = NSitePages - 1
  /\ runs["fill"].done = Range(runs["fill"].tasks[1].pages)
  /\ toRebuild = {}

\* C31: changeCurrentPage(k) makes k the page viewed; it requests the rebuild of
\* k exactly when k is in toRebuild, which is the value it returns; it starts
\* no generation itself and leaves toRebuild as it is.
C31_ChangeCurrentPage ==
  [][\A k \in SiteKeys :
       ChangeCurrentPage(k) =>
         /\ currentPageViewed' = k
         /\ toRebuild' = toRebuild
         /\ runs' = runs
         /\ navGenerating' = navGenerating
         /\ k \in toRebuild => navRequested' = navRequested \cup {k}
         /\ k \notin toRebuild => navRequested' = navRequested]_vars

\* The viewer went to a pending page of a lazy site: its rebuild is requested
\* and has not started.
C31_Witness ==
  /\ onePagePath # 0
  /\ phase = "built"
  /\ currentPageViewed # onePagePath
  /\ currentPageViewed \in toRebuild
  /\ navRequested = {currentPageViewed}
  /\ navGenerating = {}

\* C32: _rebuildPageBeingViewed, called with an array of urls that may repeat
\* and may name no page, calls generate once for every page that one of the
\* urls names, all of them before any completes, deletes their keys from
\* toRebuild, and does nothing for the other urls.
C32_NavigationRebuild ==
  [][\A normalizedUrls \in RequestedLists :
       RebuildPageBeingViewedWith(normalizedUrls) =>
         LET generated == RegeneratePagesBeingViewed(normalizedUrls) IN
         /\ NoRepeat(generated)
         /\ Range(generated) = Range(normalizedUrls) \cap Range(pages)
         /\ navGenerating' = navGenerating \cup Range(generated)
         /\ toRebuild' = toRebuild \ Range(generated)
         /\ \A url \in Range(normalizedUrls) \ Range(pages) :
              /\ url \notin navGenerating'
              /\ url \in toRebuild' <=> url \in toRebuild
         /\ runs' = runs]_vars

\* The page viewed was removed from a lazy site while its key was in
\* toRebuild; the rebuild after the removal requested it and
\* _rebuildPageBeingViewed has run: nothing is generated and the key is still
\* in toRebuild.
C32_Witness ==
  /\ onePagePath # 0
  /\ rebuilding = "lazy"
  /\ navRequested = {}
  /\ navGenerating = {}
  /\ currentPageViewed \notin Range(pages)
  /\ currentPageViewed \in toRebuild
  /\ pages # <<>>

\* C33: whenever collectAddressablePages returns, addressablePagesSource is
\* the list of the keys of addressablePages in their order, and collecting
\* once more from the same site configuration gives the same pages and the
\* same list.
C33_ResolutionIdempotent ==
  [][CollectReturns =>
       /\ Len(addressablePagesSource') = Len(addressablePages')
       /\ \A i \in 1..Len(addressablePages') :
            addressablePagesSource'[i] = Key(addressablePages'[i])
       /\ ResolvedPages(siteConfig') = addressablePages'
       /\ CollectedSource(addressablePagesSource', ResolvedPages(siteConfig'))
            = addressablePagesSource']_vars

\* A site configuration whose last entry adds pages to those of its first
\* entry has been collected: the list holds the keys of its pages, and no more.
C33_Witness ==
  /\ thrown = NoError
  /\ Len(siteConfig) = MaxEntries
  /\ addressablePages = ResolvedPages(siteConfig)
  /\ Len(addressablePages) > 1
  /\ Len(addressablePagesSource) = Len(addressablePages)
  /\ ResolvedPages(SubSeq(siteConfig, 1, 1)) # <<>>
  /\ ResolvedPages(SubSeq(siteConfig, 1, 1)) # addressablePages

\* Nothing is under way: no invocation of runPageGenerationTasks, no rebuild
\* of a page viewed, requested or started.
Idle ==
  /\ Serving
  /\ \A r \in Slots : runs[r] = IdleRun
  /\ navRequested = {}
  /\ navGenerating = {}

\* C34: when nothing is under way, every page a source file of which changed
\* while its page.generate was under way, and that has not been generated
\* again since, is in toRebuild.
C34_NoInvalidationLost ==
  Idle => invalidated \subseteq toRebuild

\* C35: every key in toRebuild is the key of a page of this.pages.
C35_PendingKeysAreKnownPages ==
  phase # "new" => toRebuild \subseteq Range(pages)

\* C36: when every page.generate it has started completes, a background build
\* eventually returns, whatever toRebuild and this.pages hold when it starts.
C36_BackgroundBuildReturns ==
  (runs["fill"].status = "running") ~> (runs["fill"].status # "running")

\* C37: a page.generate that fails leaves the key of its page in toRebuild when
\* the attempt found it there: the catch of a task of the scheduler removes no
\* key, and after the catch of _rebuildPageBeingViewed the key that toRebuild
\* held when the page was reached is still in it.
C37_FailedGenerateKeepsKey ==
  [][/\ \A r \in Slots : \A p \in runs'[r].failed \ runs[r].failed :
          p \in toRebuild => p \in toRebuild'
     /\ \A p \in SiteKeys :
          NavGenerateEnds(p, FALSE) /\ p \in navPending => p \in toRebuild']_vars

\* C38: with backgroundBuildMode off no stop guard fires: every task that has
\* resolved has called generate of all its pages, with success, and has
\* resolved with true, and an invocation that has returned has returned true,
\* wherever stopGenerationTimeThreshold stands.
C38_NoStopWithoutBackgroundMode ==
  ~backgroundBuildMode =>
    \A r \in Slots :
      /\ \A i \in 1..Len(runs[r].results) :
           /\ runs[r].results[i]
           /\ Range(runs[r].tasks[i].pages) \subseteq runs[r].done
      /\ runs[r].status = "returned" =>
           /\ runs[r].isCompleted
           /\ AllTaskPages(runs[r]) \subseteq runs[r].done

\* backgroundBuildMode is off, stopOngoingBuilds was called after the invocation
\* had started and before its second task, a concurrent one, started, and the
\* invocation has returned true after both tasks.
C38_Witness ==
  /\ ~backgroundBuildMode
  /\ runs["rebuild"].status = "returned"
  /\ runs["rebuild"].isCompleted
  /\ Len(runs["rebuild"].results) = 2
  /\ runs["rebuild"].tasks[2].mode = "async"
  /\ runs["rebuild"].startTime < stopGenerationTimeThreshold
  /\ stopGenerationTimeThreshold < runs["rebuild"].context.startTime
  /\ Len(runs["rebuild"].tasks[1].pages) >= 1
  /\ Len(runs["rebuild"].tasks[2].pages) >= 2

\* A task of the invocation was stopped only if stopOngoingBuilds was called at
\* a time after its start: a sequential or concurrent task that has set its
\* isCompleted to false started before stopGenerationTimeThreshold, and a task
\* was passed over only in an invocation that started before it.
StoppedOnlyAfterStart(rec) ==
  /\ ~rec.seqIsCompleted => rec.seqStart < stopGenerationTimeThreshold
  /\ ~rec.context.isCompleted => rec.context.startTime < stopGenerationTimeThreshold
  /\ (\E i \in 1..Len(rec.results) : ~rec.results[i]) =>
       rec.startTime < stopGenerationTimeThreshold
  /\ ~rec.isCompleted => rec.startTime < stopGenerationTimeThreshold

\* C39: stopGenerationTimeThreshold never decreases, and a task is stopped only
\* when it started before stopGenerationTimeThreshold: one that started at the
\* time of the last stopOngoingBuilds or later runs to its end.
C39_StopOnlyEarlierTasks ==
  /\ [][stopGenerationTimeThreshold' >= stopGenerationTimeThreshold]_vars
  /\ [](\A r \in Slots : StoppedOnlyAfterStart(runs[r]))

\* In background-build mode an invocation that started at the time of the last
\* stopOngoingBuilds has generated all the pages of its two tasks and returned
\* true.
C39_Witness ==
  /\ backgroundBuildMode
  /\ stopGenerationTimeThreshold > 0
  /\ runs["rebuild"].status = "returned"
  /\ runs["rebuild"].startTime = stopGenerationTimeThreshold
  /\ Len(runs["rebuild"].tasks) = 2
  /\ runs["rebuild"].isCompleted
  /\ AllTaskPages(runs["rebuild"]) \subseteq runs["rebuild"].done

\* C40: without a landing page toRebuild is empty in every state, whatever
\* generate(), regenerateAffectedPages and the rebuilds after added or removed
\* pages have done, so that changeCurrentPage returns false for every url and
\* no rebuild of a page viewed is requested.
C40_FullModeNothingPending ==
  onePagePath = 0 =>
    /\ toRebuild = {}
    /\ \A k \in SiteKeys : ~NeedsRebuild(k)
    /\ navRequested = {}

\* Without a landing page the viewer has changed page and
\* regenerateAffectedPages is rebuilding a page that is not the page viewed:
\* toRebuild is empty.
C40_Witness ==
  /\ onePagePath = 0
  /\ currentPageViewed # 0
  /\ runs["rebuild"].status = "running"
  /\ \E p \in AllTaskPages(runs["rebuild"]) : p # currentPageViewed
  /\ toRebuild = {}

====
